---- MODULE Spec2Model ----
(***************************************************************************)
(* A model of adequate-little-templates (src/src/index.ts): the function   *)
(* registry fns, the evaluator ev, the renderer rn, the parser behind      *)
(* compile, and the public operations compile, render and registerFunction.*)
(*                                                                         *)
(* JavaScript strings are modelled as sequences of one-character strings,  *)
(* so that scanning, escaping and concatenation are computed character by  *)
(* character.  Values are tagged records; numbers are decimals m / 10^d.   *)
(***************************************************************************)
EXTENDS Integers, Sequences, FiniteSets, TLC

VARIABLES
  fns,     \* the registry: function name -> entry (own properties of fns)
  latest,  \* history: per name, the function most recently registered
  trees,   \* the compiled templates the caller holds, each marked stale
           \* once a function was registered after it was compiled
  last,    \* the most recent evaluation or rendering, with its outcome
  input    \* the input under study (an expression and context, a text,
           \* or a template and data)

vars == <<fns, latest, trees, last, input>>

\* ------------------------------------------------------------------------
\* Bounds of the model
\* ------------------------------------------------------------------------
\* the caller holds at most MaxTrees compiled templates
MaxTrees == 2
\* generated calls and pipes carry at most MaxArgs argument expressions
MaxArgs == 3
\* generated variable paths have at most MaxPath segments
MaxPath == 2
\* generated template texts are concatenations of at most MaxPieces pieces
MaxPieces == 3
\* generated conditionals have at most MaxBranches branches
MaxBranches == 3
\* generated unclosed templates nest at most MaxDepth blocks
MaxDepth == 2
\* generated calls of truncate cut at lengths from -MaxCut to MaxCut
MaxCut == 6

\* ------------------------------------------------------------------------
\* Text constants (sequences of characters)
\* ------------------------------------------------------------------------
\* character classes
LowerAZ ==
  <<"a", "b", "c", "d", "e", "f", "g", "h", "i", "j", "k", "l", "m", "n", "o", "p",
    "q", "r", "s", "t", "u", "v", "w", "x", "y", "z">>
UpperAZ ==
  <<"A", "B", "C", "D", "E", "F", "G", "H", "I", "J", "K", "L", "M", "N", "O", "P",
    "Q", "R", "S", "T", "U", "V", "W", "X", "Y", "Z">>
Digits == <<"0", "1", "2", "3", "4", "5", "6", "7", "8", "9">>
WsChars == <<" ", "\t", "\n", "\r">>
\* the names of the built-ins
N_eq == <<"e", "q">>
N_ne == <<"n", "e">>
N_gt == <<"g", "t">>
N_lt == <<"l", "t">>
N_gte == <<"g", "t", "e">>
N_lte == <<"l", "t", "e">>
N_and == <<"a", "n", "d">>
N_or == <<"o", "r">>
N_not == <<"n", "o", "t">>
N_lowercase == <<"l", "o", "w", "e", "r", "c", "a", "s", "e">>
N_uppercase == <<"u", "p", "p", "e", "r", "c", "a", "s", "e">>
N_trim == <<"t", "r", "i", "m">>
N_truncate == <<"t", "r", "u", "n", "c", "a", "t", "e">>
N_replace == <<"r", "e", "p", "l", "a", "c", "e">>
N_limit == <<"l", "i", "m", "i", "t">>
N_first == <<"f", "i", "r", "s", "t">>
N_last == <<"l", "a", "s", "t">>
N_length == <<"l", "e", "n", "g", "t", "h">>
N_join == <<"j", "o", "i", "n">>
N_default == <<"d", "e", "f", "a", "u", "l", "t">>
\* the property names of Object.prototype
P_constructor == <<"c", "o", "n", "s", "t", "r", "u", "c", "t", "o", "r">>
P_defineGetter ==
  <<"_", "_", "d", "e", "f", "i", "n", "e", "G", "e", "t", "t", "e", "r", "_", "_">>
P_defineSetter ==
  <<"_", "_", "d", "e", "f", "i", "n", "e", "S", "e", "t", "t", "e", "r", "_", "_">>
P_hasOwnProperty ==
  <<"h", "a", "s", "O", "w", "n", "P", "r", "o", "p", "e", "r", "t", "y">>
P_lookupGetter ==
  <<"_", "_", "l", "o", "o", "k", "u", "p", "G", "e", "t", "t", "e", "r", "_", "_">>
P_lookupSetter ==
  <<"_", "_", "l", "o", "o", "k", "u", "p", "S", "e", "t", "t", "e", "r", "_", "_">>
P_isPrototypeOf == <<"i", "s", "P", "r", "o", "t", "o", "t", "y", "p", "e", "O", "f">>
P_propertyIsEnumerable ==
  <<"p", "r", "o", "p", "e", "r", "t", "y", "I", "s", "E", "n", "u", "m", "e", "r",
    "a", "b", "l", "e">>
P_toString == <<"t", "o", "S", "t", "r", "i", "n", "g">>
P_valueOf == <<"v", "a", "l", "u", "e", "O", "f">>
P_proto == <<"_", "_", "p", "r", "o", "t", "o", "_", "_">>
P_call == <<"c", "a", "l", "l">>
P_apply == <<"a", "p", "p", "l", "y">>
P_bind == <<"b", "i", "n", "d">>
P_toLocaleString ==
  <<"t", "o", "L", "o", "c", "a", "l", "e", "S", "t", "r", "i", "n", "g">>
\* keywords, conversions, error texts, entities, delimiters
S_true == <<"t", "r", "u", "e">>
S_false == <<"f", "a", "l", "s", "e">>
S_null == <<"n", "u", "l", "l">>
S_undefined == <<"u", "n", "d", "e", "f", "i", "n", "e", "d">>
S_NaN == <<"N", "a", "N">>
S_objectObject ==
  <<"[", "o", "b", "j", "e", "c", "t", " ", "O", "b", "j", "e", "c", "t", "]">>
S_objectUndefined ==
  <<"[", "o", "b", "j", "e", "c", "t", " ", "U", "n", "d", "e", "f", "i", "n", "e",
    "d", "]">>
S_function == <<"f", "u", "n", "c", "t", "i", "o", "n">>
S_ErrUnknownPre ==
  <<"[", "E", "r", "r", "o", "r", ":", " ", "u", "n", "k", "n", "o", "w", "n", " ">>
S_ErrUnknownPost == <<"(", ")", "]">>
S_ErrPre == <<"[", "E", "r", "r", "o", "r", ":", " ">>
S_ErrNeeds == <<"(", ")", " ", "n", "e", "e", "d", "s", " ">>
S_ErrArgs == <<" ", "a", "r", "g", "s", "]">>
S_ErrUseEach ==
  <<"[", "E", "r", "r", "o", "r", ":", " ", "u", "s", "e", " ", "#", "e", "a", "c",
    "h", " ", "f", "o", "r", " ", "a", "r", "r", "a", "y", "s", "]">>
S_ErrObject ==
  <<"[", "E", "r", "r", "o", "r", ":", " ", "c", "a", "n", "n", "o", "t", " ", "r",
    "e", "n", "d", "e", "r", " ", "o", "b", "j", "e", "c", "t", "]">>
S_ErrEachArray ==
  <<"[", "E", "r", "r", "o", "r", ":", " ", "#", "e", "a", "c", "h", " ", "n", "e",
    "e", "d", "s", " ", "a", "r", "r", "a", "y", "]">>
S_ErrMissingAs ==
  <<"[", "E", "r", "r", "o", "r", ":", " ", "#", "e", "a", "c", "h", " ", "m", "i",
    "s", "s", "i", "n", "g", " ", "'", "a", "s", "'", "]">>
S_ErrUnknownBlock ==
  <<"[", "E", "r", "r", "o", "r", ":", " ", "u", "n", "k", "n", "o", "w", "n", " ",
    "#">>
S_dots == <<".", ".", ".">>
S_amp == <<"&", "a", "m", "p", ";">>
S_lt == <<"&", "l", "t", ";">>
S_gt == <<"&", "g", "t", ";">>
S_quot == <<"&", "q", "u", "o", "t", ";">>
S_apos == <<"&", "#", "3", "9", ";">>
S_if == <<"i", "f">>
S_each == <<"e", "a", "c", "h">>
S_as == <<"a", "s">>
S_EQUAL == <<"E", "Q", "U", "A", "L">>
S_NOT_EQUAL == <<"N", "O", "T", "_", "E", "Q", "U", "A", "L">>
T_open == <<"{", "{">>
T_close == <<"}", "}">>
T_escOpen == <<"\\", "{", "{">>
T_elseIf == <<"{", "{", ":", "e", "l", "s", "e", " ", "i", "f">>
T_elseif == <<"{", "{", ":", "e", "l", "s", "e", "i", "f">>
T_else == <<"{", "{", ":", "e", "l", "s", "e", "}", "}">>
T_endIf == <<"{", "{", "/", "i", "f", "}", "}">>
T_endEach == <<"{", "{", "/", "e", "a", "c", "h", "}", "}">>
\* keys and words of the data and templates of the model
K_items == <<"i", "t", "e", "m", "s">>
K_x == <<"x">>
K_f == <<"f">>
K_g == <<"g">>
K_a == <<"a">>
K_b == <<"b">>
K_xs == <<"x", "s">>
K_s == <<"s">>
K_nul == <<"n", "u", "l">>
K_n == <<"n">>
K_outer == <<"o", "u", "t", "e", "r">>
K_own == <<"o", "w", "n">>
K_v == <<"v">>
K_hi == <<"h", "i">>
K_p == <<"p">>
K_i == <<"i">>
K_url == <<"u", "r", "l">>
K_safeUrl == <<"s", "a", "f", "e", "U", "r", "l">>
\* texts some renderings are expected to produce
Out_shadow == <<"0", "1", "1", "2", ":", "o", "u", "t", "e", "r">>
Out_override == <<"E", "Q", "U", "A", "L", "!">>
Tx_stray == <<"{", "{", "@">>
\* pieces of the templates rendered on their own
Tx_ifOpen == <<"{", "{", "#", "i", "f", " ">>
Tx_elseIfOpen == <<"{", "{", ":", "e", "l", "s", "e", " ", "i", "f", " ">>
Tx_callF == <<"f", "(", ")">>
Tx_callValueOf == <<"v", "a", "l", "u", "e", "O", "f", "(", ")">>
Tx_else == <<"e">>
Tx_eachOpen == <<"{", "{", "#", "e", "a", "c", "h", " ">>
Tx_asKw == <<" ", "a", "s", " ">>
Tx_comma == <<",", " ">>
Tx_callFxs == <<"f", "(", "x", "s", ")">>
Tx_markup == <<"<", "a", " ", "b", "=", "\"", "c", "\"", ">", "&", "'">>
Tx_entities == <<"&", "a", "m", "p", ";", "&", "l", "t", ";">>
Tx_five == <<"5">>
Tx_half == <<"2", ".", "5">>
Tx_rawOpen == <<"{", "{", "+", " ">>
Tx_rawClose == <<" ", "+", "}", "}">>
Tx_open == <<"{", "{", " ">>
Tx_close == <<" ", "}", "}">>
Tx_notOpen == <<"{", "{", " ", "n", "o", "t", "(">>
Tx_andOpen == <<"{", "{", " ", "a", "n", "d", "(">>
Tx_orOpen == <<"{", "{", " ", "o", "r", "(">>
Tx_defaultOpen == <<"{", "{", " ", "d", "e", "f", "a", "u", "l", "t", "(">>
Tx_thenF == <<",", " ", "f", "(", ")", ")", " ", "}", "}">>
Tx_callClose == <<")", " ", "}", "}">>
Tx_zero == <<"0">>
Tx_space == <<" ">>
Tx_eachXs == <<"{", "{", "#", "e", "a", "c", "h", " ", "x", "s">>
Tx_wordV == <<" ", "v">>
Tx_inV == <<" ", "i", "n", " ", "v">>
Tx_textA == <<"A">>
Tx_interpX == <<"{", "{", " ", "x", " ", "}", "}">>
Tx_openDq == <<"{", "{", " ", "\"", "h", "e", "l", "l", "o", " ", "}", "}">>
Tx_openSq == <<"{", "{", " ", "'", "h", "e", "l", "l", "o", " ", "}", "}">>
Tx_openArg == <<"{", "{", " ", "f", "(", "\"", "a", ")", " ", "}", "}">>
Tx_eqOpen == <<"{", "{", " ", "e", "q", "(">>
Tx_neOpen == <<"{", "{", " ", "n", "e", "(">>
Tx_safeUrl ==
  <<"{", "{", " ", "u", "r", "l", " ", "|", " ", "s", "a", "f", "e", "U", "r", "l",
    " ", "}", "}">>
U_rel == <<"/", "p">>
U_relPadded == <<" ", "/", "p", "\n">>
U_hash == <<"#", "h">>
U_query == <<"?", "q">>
U_https == <<"H", "T", "T", "P", "S", ":", "/", "/", "e">>
U_http == <<"h", "t", "t", "p", ":", "/", "/", "e">>
U_mailto == <<"m", "a", "i", "l", "t", "o", ":", "a">>
U_tel == <<"t", "e", "l", ":", "1">>
U_ftp == <<"f", "t", "p", ":", "/", "/", "e">>
U_js == <<"j", "a", "v", "a", "s", "c", "r", "i", "p", "t", ":", "x">>
U_jsUpper == <<"J", "a", "v", "a", "S", "c", "r", "i", "p", "t", ":", "x">>
U_data == <<" ", "d", "a", "t", "a", ":", "x">>
U_vbs == <<"\t", "v", "b", "s", "c", "r", "i", "p", "t", ":", "x">>
Tx_ifA == <<"{", "{", "#", "i", "f", " ", "x", "}", "}", "A">>
Tx_ifElse ==
  <<"{", "{", "#", "i", "f", " ", "n", "u", "l", "}", "}", "A", "{", "{", ":", "e",
    "l", "s", "e", "}", "}", "B">>
Tx_eachV ==
  <<"{", "{", "#", "e", "a", "c", "h", " ", "x", "s", " ", "a", "s", " ", "v", "}",
    "}", "[", "{", "{", " ", "v", " ", "}", "}", "]">>
Tx_eachElse ==
  <<"{", "{", "#", "e", "a", "c", "h", " ", "i", "t", "e", "m", "s", " ", "a", "s",
    " ", "v", "}", "}", "A", "{", "{", ":", "e", "l", "s", "e", "}", "}", "B">>
Tx_partInterp == <<"<", "{", "{", " ", "x">>
Tx_partPipe ==
  <<"{", "{", " ", "x", " ", "|", " ", "u", "p", "p", "e", "r", "c", "a", "s", "e">>
Tx_partCall == <<"{", "{", " ", "l", "o", "w", "e", "r", "c", "a", "s", "e", "(", "x">>
Tx_partRaw == <<"{", "{", "+", " ", "x">>
Tx_partIf == <<"{", "{", "#", "i", "f", " ", "x">>
Tx_partEach ==
  <<"{", "{", "#", "e", "a", "c", "h", " ", "x", "s", " ", "a", "s", " ", "v">>
Tx_partText == <<"C">>
Tx_afterX == <<" ", "x", " ", "}", "}">>
Tx_slash == <<"\\">>
Tx_ifX == <<"{", "{", "#", "i", "f", " ", "x", "}", "}">>
Tx_brace == <<"{">>
Tx_hashIf == <<"#", "i", "f">>
Tx_quote == <<"\"">>
Tx_truncOpen == <<" ", "|", " ", "t", "r", "u", "n", "c", "a", "t", "e", "(">>
Tx_bang == <<"!">>
Tx_minus == <<"-">>
Tx_argBang == <<",", " ", "\"", "!", "\"">>
Tx_argEmpty == <<",", " ", "\"", "\"">>
Tx_noArgs == <<"(", ")", " ", "}", "}">>
Tx_lbr == <<"[">>
Tx_colon == <<":">>
Tx_rbr == <<"]">>
\* the templates the caller compiles in the model
Tm_shadow ==
  <<"{", "{", "#", "e", "a", "c", "h", " ", "i", "t", "e", "m", "s", " ", "a", "s",
    " ", "x", ",", " ", "i", "}", "}", "{", "{", " ", "i", " ", "}", "}", "{", "{",
    " ", "x", " ", "}", "}", "{", "{", "/", "e", "a", "c", "h", "}", "}", ":", "{",
    "{", " ", "x", " ", "}", "}", "{", "{", " ", "i", " ", "}", "}">>
Tm_call ==
  <<"{", "{", " ", "f", "(", "x", ")", " ", "}", "}", "<", "{", "{", " ", "x", " ",
    "|", " ", "f", " ", "}", "}", ">">>
Tm_eq == <<"{", "{", " ", "e", "q", "(", "x", ",", " ", "x", ")", " ", "}", "}", "!">>
Tm_proto ==
  <<"a", "{", "{", " ", "v", "a", "l", "u", "e", "O", "f", "(", ")", " ", "}", "}">>

\* ------------------------------------------------------------------------
\* Characters and strings
\* ------------------------------------------------------------------------
Range(s) == {s[i] : i \in DOMAIN s}

\* /\w/: word characters
IsWord(c) == c \in Range(LowerAZ) \cup Range(UpperAZ) \cup Range(Digits) \cup {"_"}
IsDigit(c) == c \in Range(Digits)
\* " \t\n\r".includes(c)
IsWs(c) == c \in Range(WsChars)

IndexIn(s, c) == CHOOSE i \in DOMAIN s : s[i] = c
DigitVal(c) == IndexIn(Digits, c) - 1

Min(a, b) == IF a < b THEN a ELSE b
Max(a, b) == IF a > b THEN a ELSE b

\* s.slice(from, to) with 0-based bounds already clamped to [0, Len(s)]
Slice(s, from, to) == IF to <= from THEN <<>> ELSE SubSeq(s, from + 1, to)

\* JavaScript's relative index of slice: negative counts from the end
RelIndex(n, len) == IF n < 0 THEN Max(len + n, 0) ELSE Min(n, len)

RECURSIVE Concat(_)
Concat(ss) == IF ss = <<>> THEN <<>> ELSE Head(ss) \o Concat(Tail(ss))

RECURSIVE Pow10(_)
Pow10(d) == IF d = 0 THEN 1 ELSE 10 * Pow10(d - 1)

RECURSIVE NatToStr(_)
NatToStr(n) == IF n < 10 THEN <<Digits[n + 1]>>
               ELSE NatToStr(n \div 10) \o <<Digits[(n % 10) + 1]>>

RECURSIVE PadLeft(_, _)
PadLeft(s, w) == IF Len(s) >= w THEN s ELSE PadLeft(<<"0">> \o s, w)

\* ------------------------------------------------------------------------
\* Values (type Value, src/src/index.ts lines 4-11)
\* ------------------------------------------------------------------------
Str(s) == [k |-> "str", s |-> s]
RECURSIVE Num(_, _)
\* the number m / 10^d, in lowest decimal form
Num(m, d) == IF d > 0 /\ m % 10 = 0 THEN Num(m \div 10, d - 1)
             ELSE [k |-> "num", m |-> m, d |-> d]
IntV(n) == Num(n, 0)
NaN == [k |-> "nan"]
Bool(b) == [k |-> "bool", b |-> b]
Null == [k |-> "null"]
Undef == [k |-> "undef"]
\* The identity of an array or mapping: the path of keys under which the
\* data holds it, or fresh for one created during evaluation.
DataId(p) == [fresh |-> FALSE, p |-> p]
FreshId == [fresh |-> TRUE, p |-> <<>>]
Arr(a, id) == [k |-> "arr", a |-> a, id |-> id]
Obj(m, id) == [k |-> "obj", m |-> m, id |-> id]
FreshArr(a) == Arr(a, FreshId)
\* a member inherited from Object.prototype (not a Value)
ProtoMember(name) == [k |-> "proto", name |-> name]
\* a member inherited from Function.prototype
FnProtoMember(name) == [k |-> "fnproto", name |-> name]
\* the outcome of an evaluation that ends in a thrown TypeError
Throw == [k |-> "throw"]

IsNullish(v) == v.k \in {"null", "undef"}

\* ------------------------------------------------------------------------
\* Conversions: String(v), Number(v), parseFloat(s)
\* ------------------------------------------------------------------------
NumToStr(v) ==
  LET neg == v.m < 0
      a == IF neg THEN 0 - v.m ELSE v.m
      ip == a \div Pow10(v.d)
      fp == a % Pow10(v.d)
      body == IF v.d = 0 THEN NatToStr(ip)
              ELSE NatToStr(ip) \o <<".">> \o PadLeft(NatToStr(fp), v.d)
  IN IF neg THEN <<"-">> \o body ELSE body

RECURSIVE ToStr(_)
RECURSIVE JoinArr(_, _)
\* Array.prototype.join: null and undefined elements give the empty string
JoinArr(a, sep) ==
  IF a = <<>> THEN <<>>
  ELSE LET h == IF IsNullish(Head(a)) THEN <<>> ELSE ToStr(Head(a))
       IN IF Len(a) = 1 THEN h ELSE h \o sep \o JoinArr(Tail(a), sep)

\* String(v)
ToStr(v) ==
  CASE v.k = "str" -> v.s
    [] v.k = "num" -> NumToStr(v)
    [] v.k = "nan" -> S_NaN
    [] v.k = "bool" -> IF v.b THEN S_true ELSE S_false
    [] v.k = "null" -> S_null
    [] v.k = "undef" -> S_undefined
    [] v.k = "arr" -> JoinArr(v.a, <<",">>)
    [] v.k = "obj" -> S_objectObject
    [] v.k = "proto" -> S_function

RECURSIVE TrimLeft(_)
TrimLeft(s) == IF s # <<>> /\ IsWs(Head(s)) THEN TrimLeft(Tail(s)) ELSE s
RECURSIVE TrimRight(_)
TrimRight(s) == IF s # <<>> /\ IsWs(s[Len(s)]) THEN TrimRight(SubSeq(s, 1, Len(s) - 1)) ELSE s
\* String.prototype.trim (over the white space of the model's alphabet)
Trim(s) == TrimRight(TrimLeft(s))

RECURSIVE DigitsVal(_)
DigitsVal(s) == IF s = <<>> THEN 0 ELSE DigitsVal(SubSeq(s, 1, Len(s) - 1)) * 10 + DigitVal(s[Len(s)])

AllDigits(s) == \A i \in DOMAIN s : IsDigit(s[i])

\* the value of an unsigned decimal text "ddd", "ddd.", "ddd.ddd" or ".ddd"
\* with at least one digit, or NaN for any other text
UDecimal(s) ==
  LET dots == {i \in DOMAIN s : s[i] = "."}
  IN IF dots = {} THEN (IF s # <<>> /\ AllDigits(s) THEN IntV(DigitsVal(s)) ELSE NaN)
     ELSE LET p == CHOOSE i \in dots : \A j \in dots : i <= j
              ip == SubSeq(s, 1, p - 1)
              fp == SubSeq(s, p + 1, Len(s))
          IN IF AllDigits(ip) /\ AllDigits(fp) /\ Len(ip) + Len(fp) > 0
             THEN Num(DigitsVal(ip \o fp), Len(fp))
             ELSE NaN

Negate(v) == IF v.k = "num" THEN Num(0 - v.m, v.d) ELSE v

\* StringToNumber for decimal texts: "" is 0, "[+-]decimal" its value,
\* anything else NaN (hexadecimal, exponent and Infinity forms are not in
\* the inputs of the model)
StrToNum(s0) ==
  LET s == Trim(s0)
  IN IF s = <<>> THEN IntV(0)
     ELSE IF Head(s) = "-" THEN Negate(UDecimal(Tail(s)))
     ELSE IF Head(s) = "+" THEN UDecimal(Tail(s))
     ELSE UDecimal(s)

\* Number(v)
ToNum(v) ==
  CASE v.k = "num" -> v
    [] v.k = "nan" -> NaN
    [] v.k = "str" -> StrToNum(v.s)
    [] v.k = "bool" -> IF v.b THEN IntV(1) ELSE IntV(0)
    [] v.k = "null" -> IntV(0)
    [] v.k = "undef" -> NaN
    [] v.k = "arr" -> StrToNum(ToStr(v))
    [] v.k = "obj" -> NaN
    [] v.k = "proto" -> NaN

\* parseFloat(s) for the runs the number scanner produces:
\* [-] digits* [.] digits*; the value is NaN when the run holds no digit
ParseFloat(s) ==
  IF s # <<>> /\ Head(s) = "-" THEN Negate(UDecimal(Tail(s))) ELSE UDecimal(s)

\* a < b on numbers (false when either is NaN)
NumLt(a, b) ==
  /\ a.k = "num" /\ b.k = "num"
  /\ a.m * Pow10(b.d) < b.m * Pow10(a.d)
NumEq(a, b) == a.k = "num" /\ b.k = "num" /\ a = b

\* ------------------------------------------------------------------------
\* truthy and ck
\* ------------------------------------------------------------------------
\* the truthiness of JavaScript: every array and mapping is truthy
TruthyJs(v) ==
  ~ \/ v.k = "null"
    \/ v.k = "undef"
    \/ v = Bool(FALSE)
    \/ (v.k = "num" /\ v.m = 0)
    \/ v = Str(<<>>)
    \/ v.k = "nan"

truthy(v) ==
  ~ \/ v.k = "null"
    \/ v.k = "undef"
    \/ v = Bool(FALSE)
    \/ (v.k = "num" /\ v.m = 0)
    \/ v = Str(<<>>)
    \/ v.k = "nan"
    \/ (v.k = "arr" /\ Len(v.a) = 0)
    \/ (v.k = "obj" /\ DOMAIN v.m = {})

ArgsError(name, n) == Str(S_ErrPre \o name \o S_ErrNeeds \o NatToStr(n) \o S_ErrArgs)

\* ck(a, n, name): the error string, or Null when enough arguments are given
ck(a, n, name) == IF Len(a) < n THEN ArgsError(name, n) ELSE Null

\* ------------------------------------------------------------------------
\* Objects: own keys, property access
\* ------------------------------------------------------------------------
\* The names every plain object inherits from Object.prototype
ProtoNames == {P_constructor, P_defineGetter, P_defineSetter, P_hasOwnProperty,
               P_lookupGetter, P_lookupSetter, P_isPrototypeOf,
               P_propertyIsEnumerable, P_toString, P_valueOf, P_proto,
               P_toLocaleString}

\* a canonical array index: "0", "1", ..., without leading zeros
IsIndexKey(key) == key # <<>> /\ AllDigits(key) /\ (Len(key) = 1 \/ key[1] # "0")

\* key is an own property of the non-null value o
OwnKey(o, key) ==
  CASE o.k = "obj" -> key \in DOMAIN o.m
    [] o.k = "arr" -> key = N_length \/ (IsIndexKey(key) /\ DigitsVal(key) < Len(o.a))
    [] o.k = "str" -> key = N_length \/ (IsIndexKey(key) /\ DigitsVal(key) < Len(o.s))
    [] OTHER -> FALSE

\* key in o: own or inherited (the test has must not be)
KeyIn(o, key) == OwnKey(o, key) \/ key \in ProtoNames

\* has(o, k): Object.prototype.hasOwnProperty.call(o, k)
has(o, key) == OwnKey(o, key)

\* the own property key of o
OwnProp(o, key) ==
  CASE o.k = "obj" -> o.m[key]
    [] o.k = "arr" -> IF key = N_length THEN IntV(Len(o.a)) ELSE o.a[DigitsVal(key) + 1]
    [] o.k = "str" -> IF key = N_length THEN IntV(Len(o.s)) ELSE Str(<<o.s[DigitsVal(key) + 1]>>)

\* o[key] for a non-null o: the own property, else the inherited member
GetProp(o, key) ==
  IF OwnKey(o, key) THEN OwnProp(o, key)
  ELSE IF key \in ProtoNames THEN ProtoMember(key)
  ELSE Undef

\* ------------------------------------------------------------------------
\* Expressions (type Expr) and the evaluation log
\* ------------------------------------------------------------------------
L(val) == [t |-> "L", val |-> val]
V(path) == [t |-> "V", path |-> path]
C(fn, args) == [t |-> "C", fn |-> fn, args |-> args]
P(left, fn, args) == [t |-> "P", left |-> left, fn |-> fn, args |-> args]

\* The log of an evaluation lists, in order, every expression ev was
\* entered with and every invocation of a registered custom function.
EvEvent(e) == [ev |-> e]
CallEvent(body, args) == [call |-> body, args |-> args]

Res(v, log) == [v |-> v, log |-> log]

\* ------------------------------------------------------------------------
\* The registry fns
\* ------------------------------------------------------------------------
BuiltinNames == {N_eq, N_ne, N_gt, N_lt, N_gte, N_lte, N_and, N_or, N_not,
                 N_lowercase, N_uppercase, N_trim, N_truncate, N_replace,
                 N_limit, N_first, N_last, N_length, N_join, N_default}

Builtin(name) == [k |-> "builtin", name |-> name]
Custom(body) == [k |-> "custom", body |-> body]

\* const fns = { eq: ..., ..., default: ... }
InitFns == [n \in BuiltinNames |-> Builtin(n)]

\* The function-valued names a function object inherits from
\* Function.prototype (its own name is "" and is no function)
FnProtoNames == {P_apply, P_bind, P_call, P_constructor, P_toString}

\* fns[name]: the own entry, else what the registry object inherits.
\* fns is a plain object: an assignment to fns["__proto__"] runs the setter
\* of Object.prototype and makes the assigned function the prototype of
\* fns instead of adding an own entry.  The key __proto__ of reg stands for
\* that prototype: a read of fns["__proto__"] returns it, and the names of
\* Function.prototype are then inherited before those of Object.prototype.
RegGet(reg, name) ==
  IF name \in DOMAIN reg THEN reg[name]
  ELSE IF P_proto \in DOMAIN reg /\ name \in FnProtoNames THEN FnProtoMember(name)
  ELSE IF name \in ProtoNames THEN ProtoMember(name)
  ELSE Undef

\* The functions a host registers in the model (type CustomFn):
\*   ident  (a) => a
\*   eqText (a, b) => a === b ? "EQUAL" : "NOT_EQUAL"
CustomBodies == {"ident", "eqText"}

ArgAt(vals, i) == IF i <= Len(vals) THEN vals[i] ELSE Undef

\* a === b
StrictEq(a, b) ==
  /\ a.k = b.k
  /\ CASE a.k = "nan" -> FALSE
       [] a.k \in {"arr", "obj"} -> ~a.id.fresh /\ a.id = b.id
       [] OTHER -> a = b

CustomApply(body, vals) ==
  CASE body = "ident" -> ArgAt(vals, 1)
    [] body = "eqText" -> IF StrictEq(ArgAt(vals, 1), ArgAt(vals, 2))
                          THEN Str(S_EQUAL) ELSE Str(S_NOT_EQUAL)

\* An inherited member called as fn(ctx, ...args) with no receiver:
\* Object(ctx) returns ctx, Object.prototype.toString gives
\* "[object Undefined]", the others need a receiver and throw a TypeError
\* (as does calling __proto__, which is not a function).
ProtoCall(name, ctx) ==
  IF name = P_constructor THEN ctx
  ELSE IF name = P_toString THEN Str(S_objectUndefined)
  ELSE Throw

\* ------------------------------------------------------------------------
\* String and array helpers of the built-ins
\* ------------------------------------------------------------------------
LowerChar(c) == IF c \in Range(UpperAZ) THEN LowerAZ[IndexIn(UpperAZ, c)] ELSE c
UpperChar(c) == IF c \in Range(LowerAZ) THEN UpperAZ[IndexIn(LowerAZ, c)] ELSE c
ToLower(s) == [i \in DOMAIN s |-> LowerChar(s[i])]
ToUpper(s) == [i \in DOMAIN s |-> UpperChar(s[i])]

RECURSIVE SplitJoin(_, _, _)
\* s.split(find).join(rep) for a non-empty find
SplitJoin(s, find, rep) ==
  IF Len(s) < Len(find) THEN s
  ELSE IF SubSeq(s, 1, Len(find)) = find
       THEN rep \o SplitJoin(SubSeq(s, Len(find) + 1, Len(s)), find, rep)
       ELSE <<Head(s)>> \o SplitJoin(Tail(s), find, rep)

RECURSIVE Intersperse(_, _)
Intersperse(s, rep) ==
  IF Len(s) <= 1 THEN s ELSE <<Head(s)>> \o rep \o Intersperse(Tail(s), rep)

\* s.split(find).join(rep)
ReplaceAll(s, find, rep) ==
  IF find = <<>> THEN Intersperse(s, rep) ELSE SplitJoin(s, find, rep)

\* ToIntegerOrInfinity of a number: truncation towards zero, NaN to 0
Trunc(n) ==
  IF n.k = "nan" THEN 0
  ELSE IF n.m < 0 THEN 0 - ((0 - n.m) \div Pow10(n.d))
  ELSE n.m \div Pow10(n.d)

\* s.slice(0, n) of a string or array of length len, n a number
SliceEnd(n, len) == RelIndex(Trunc(n), len)

\* ------------------------------------------------------------------------
\* The built-in functions (fns) and the evaluator ev
\* ------------------------------------------------------------------------
RECURSIVE ev(_, _, _)

RECURSIVE EvSeq(_, _, _)
\* the expressions es evaluated in order; a throw ends the sequence
EvSeq(es, ctx, reg) ==
  IF es = <<>> THEN [vs |-> <<>>, log |-> <<>>, thrown |-> FALSE]
  ELSE LET r == ev(Head(es), ctx, reg)
       IN IF r.v = Throw THEN [vs |-> <<>>, log |-> r.log, thrown |-> TRUE]
          ELSE LET rest == EvSeq(Tail(es), ctx, reg)
               IN [vs |-> <<r.v>> \o rest.vs, log |-> r.log \o rest.log,
                   thrown |-> rest.thrown]

\* ev(a[i], ctx): ev returns undefined for a missing expression (if (!e))
EvOpt(a, i, ctx, reg) ==
  IF i <= Len(a) THEN ev(a[i], ctx, reg) ELSE Res(Undef, <<>>)

\* ck(a, 2, name) ?? ...: the arity error, or the two operands evaluated
\* in order (done is set when the result is already decided)
Binary(name, ctx, a, reg) ==
  IF ck(a, 2, name) # Null
  THEN [done |-> TRUE, res |-> Res(ck(a, 2, name), <<>>)]
  ELSE LET r == EvSeq(<<a[1], a[2]>>, ctx, reg)
       IN IF r.thrown THEN [done |-> TRUE, res |-> Res(Throw, r.log)]
          ELSE [done |-> FALSE, x |-> r.vs[1], y |-> r.vs[2], log |-> r.log]

fns_eq(ctx, a, reg) ==
  LET r == Binary(N_eq, ctx, a, reg)
  IN IF r.done THEN r.res ELSE Res(Bool(StrictEq(r.x, r.y)), r.log)
fns_ne(ctx, a, reg) ==
  LET r == Binary(N_ne, ctx, a, reg)
  IN IF r.done THEN r.res ELSE Res(Bool(~StrictEq(r.x, r.y)), r.log)
fns_gt(ctx, a, reg) ==
  LET r == Binary(N_gt, ctx, a, reg)
  IN IF r.done THEN r.res ELSE Res(Bool(NumLt(ToNum(r.y), ToNum(r.x))), r.log)
fns_lt(ctx, a, reg) ==
  LET r == Binary(N_lt, ctx, a, reg)
  IN IF r.done THEN r.res ELSE Res(Bool(NumLt(ToNum(r.x), ToNum(r.y))), r.log)
fns_gte(ctx, a, reg) ==
  LET r == Binary(N_gte, ctx, a, reg)
  IN IF r.done THEN r.res
     ELSE Res(Bool(NumLt(ToNum(r.y), ToNum(r.x)) \/ NumEq(ToNum(r.x), ToNum(r.y))), r.log)
fns_lte(ctx, a, reg) ==
  LET r == Binary(N_lte, ctx, a, reg)
  IN IF r.done THEN r.res
     ELSE Res(Bool(NumLt(ToNum(r.x), ToNum(r.y)) \/ NumEq(ToNum(r.x), ToNum(r.y))), r.log)

\* and without the early return: every argument is evaluated, then the
\* first falsy value (or the last value) is returned
AndEager(a, r, ctx, reg) ==
  LET s == EvSeq(a, ctx, reg)
      falsy == {i \in DOMAIN s.vs : ~truthy(s.vs[i])}
  IN IF s.thrown THEN Res(Throw, s.log)
     ELSE IF a = <<>> THEN Res(r, <<>>)
     ELSE IF falsy = {} THEN Res(s.vs[Len(s.vs)], s.log)
     ELSE Res(s.vs[CHOOSE i \in falsy : \A j \in falsy : i <= j], s.log)

RECURSIVE AndLoop(_, _, _, _)
\* for (const e of a) { r = ev(e, ctx); if (!truthy(r)) return r; } return r;
AndLoop(a, r, ctx, reg) ==
  IF a = <<>> THEN Res(r, <<>>)
  ELSE LET x == ev(Head(a), ctx, reg)
       IN IF x.v = Throw \/ ~truthy(x.v) THEN x
          ELSE LET rest == AndLoop(Tail(a), x.v, ctx, reg)
               IN Res(rest.v, x.log \o rest.log)
fns_and(ctx, a, reg) == AndLoop(a, Bool(TRUE), ctx, reg)

RECURSIVE OrLoop(_, _, _, _)
\* for (const e of a) { r = ev(e, ctx); if (truthy(r)) return r; } return r;
OrLoop(a, r, ctx, reg) ==
  IF a = <<>> THEN Res(r, <<>>)
  ELSE LET x == ev(Head(a), ctx, reg)
       IN IF x.v = Throw \/ truthy(x.v) THEN x
          ELSE LET rest == OrLoop(Tail(a), x.v, ctx, reg)
               IN Res(rest.v, x.log \o rest.log)
fns_or(ctx, a, reg) == OrLoop(a, Bool(FALSE), ctx, reg)

\* ev(a[0], ctx) for a function of one operand
Unary(ctx, a, reg) ==
  LET r == EvOpt(a, 1, ctx, reg)
  IN IF r.v = Throw THEN [done |-> TRUE, res |-> r]
     ELSE [done |-> FALSE, x |-> r.v, log |-> r.log]

\* const e = ck(a, 1, name); if (e) return e; ... ev(a[0], ctx)
CheckedUnary(name, ctx, a, reg) ==
  IF ck(a, 1, name) # Null THEN [done |-> TRUE, res |-> Res(ck(a, 1, name), <<>>)]
  ELSE Unary(ctx, a, reg)

fns_not(ctx, a, reg) ==
  LET r == CheckedUnary(N_not, ctx, a, reg)
  IN IF r.done THEN r.res ELSE Res(Bool(~truthy(r.x)), r.log)

fns_lowercase(ctx, a, reg) ==
  LET r == Unary(ctx, a, reg)
  IN IF r.done THEN r.res ELSE Res(Str(ToLower(ToStr(r.x))), r.log)
fns_uppercase(ctx, a, reg) ==
  LET r == Unary(ctx, a, reg)
  IN IF r.done THEN r.res ELSE Res(Str(ToUpper(ToStr(r.x))), r.log)
fns_trim(ctx, a, reg) ==
  LET r == Unary(ctx, a, reg)
  IN IF r.done THEN r.res ELSE Res(Str(Trim(ToStr(r.x))), r.log)

\* s.length > n ? s.slice(0, n) + suffix : s
Truncate(s, n, suffix) ==
  IF NumLt(n, IntV(Len(s))) THEN Slice(s, 0, SliceEnd(n, Len(s))) \o suffix ELSE s

fns_truncate(ctx, a, reg) ==
  IF ck(a, 2, N_truncate) # Null THEN Res(ck(a, 2, N_truncate), <<>>)
  ELSE LET r == EvSeq(SubSeq(a, 1, Min(Len(a), 3)), ctx, reg)
       IN IF r.thrown THEN Res(Throw, r.log)
          ELSE LET s == ToStr(r.vs[1])
                   n == ToNum(r.vs[2])
                   suffix == IF Len(a) >= 3 THEN ToStr(r.vs[3]) ELSE S_dots
               IN Res(Str(Truncate(s, n, suffix)), r.log)

fns_replace(ctx, a, reg) ==
  IF ck(a, 3, N_replace) # Null THEN Res(ck(a, 3, N_replace), <<>>)
  ELSE LET r == EvSeq(SubSeq(a, 1, 3), ctx, reg)
       IN IF r.thrown THEN Res(Throw, r.log)
          ELSE Res(Str(ReplaceAll(ToStr(r.vs[1]), ToStr(r.vs[2]), ToStr(r.vs[3]))), r.log)

\* r.slice(0, n < 0 ? 0 : n) for any value n (undefined keeps the whole array)
Limit(r, n) ==
  LET len == Len(r.a)
      end == IF n.k = "undef" THEN len
             ELSE IF NumLt(ToNum(n), IntV(0)) THEN 0
             ELSE SliceEnd(ToNum(n), len)
  IN FreshArr(Slice(r.a, 0, end))

fns_limit(ctx, a, reg) ==
  IF ck(a, 2, N_limit) # Null THEN Res(ck(a, 2, N_limit), <<>>)
  ELSE LET r == EvSeq(<<a[1], a[2]>>, ctx, reg)
       IN IF r.thrown THEN Res(Throw, r.log)
          ELSE Res(IF r.vs[1].k = "arr" THEN Limit(r.vs[1], r.vs[2]) ELSE r.vs[1], r.log)

fns_first(ctx, a, reg) ==
  LET r == CheckedUnary(N_first, ctx, a, reg)
  IN IF r.done THEN r.res
     ELSE Res(IF r.x.k = "arr" THEN (IF r.x.a = <<>> THEN Undef ELSE r.x.a[1]) ELSE r.x,
              r.log)
fns_last(ctx, a, reg) ==
  LET r == CheckedUnary(N_last, ctx, a, reg)
  IN IF r.done THEN r.res
     ELSE Res(IF r.x.k = "arr"
              THEN (IF r.x.a = <<>> THEN Undef ELSE r.x.a[Len(r.x.a)]) ELSE r.x,
              r.log)
fns_length(ctx, a, reg) ==
  LET r == CheckedUnary(N_length, ctx, a, reg)
  IN IF r.done THEN r.res
     ELSE Res(IF r.x.k = "arr" THEN IntV(Len(r.x.a)) ELSE IntV(Len(ToStr(r.x))), r.log)

\* ck(a, 2, "join") ?? (r => Array.isArray(r) ? r.join(String(ev(a[1], ctx)))
\*                                             : String(r))(ev(a[0], ctx))
fns_join(ctx, a, reg) ==
  IF ck(a, 2, N_join) # Null THEN Res(ck(a, 2, N_join), <<>>)
  ELSE LET r == ev(a[1], ctx, reg)
       IN IF r.v = Throw THEN r
          ELSE IF r.v.k # "arr" THEN Res(Str(ToStr(r.v)), r.log)
          ELSE LET sep == ev(a[2], ctx, reg)
               IN IF sep.v = Throw THEN Res(Throw, r.log \o sep.log)
                  ELSE Res(Str(JoinArr(r.v.a, ToStr(sep.v))), r.log \o sep.log)

fns_default(ctx, a, reg) ==
  IF ck(a, 2, N_default) # Null THEN Res(ck(a, 2, N_default), <<>>)
  ELSE LET v == ev(a[1], ctx, reg)
       IN IF v.v = Throw \/ truthy(v.v) THEN v
          ELSE LET w == ev(a[2], ctx, reg)
               IN Res(w.v, v.log \o w.log)

\* the built-in registered under name at start-up, called as fn(ctx, ...a)
CallBuiltin(name, ctx, a, reg) ==
  CASE name = N_eq -> fns_eq(ctx, a, reg)
    [] name = N_ne -> fns_ne(ctx, a, reg)
    [] name = N_gt -> fns_gt(ctx, a, reg)
    [] name = N_lt -> fns_lt(ctx, a, reg)
    [] name = N_gte -> fns_gte(ctx, a, reg)
    [] name = N_lte -> fns_lte(ctx, a, reg)
    [] name = N_and -> fns_and(ctx, a, reg)
    [] name = N_or -> fns_or(ctx, a, reg)
    [] name = N_not -> fns_not(ctx, a, reg)
    [] name = N_lowercase -> fns_lowercase(ctx, a, reg)
    [] name = N_uppercase -> fns_uppercase(ctx, a, reg)
    [] name = N_trim -> fns_trim(ctx, a, reg)
    [] name = N_truncate -> fns_truncate(ctx, a, reg)
    [] name = N_replace -> fns_replace(ctx, a, reg)
    [] name = N_limit -> fns_limit(ctx, a, reg)
    [] name = N_first -> fns_first(ctx, a, reg)
    [] name = N_last -> fns_last(ctx, a, reg)
    [] name = N_length -> fns_length(ctx, a, reg)
    [] name = N_join -> fns_join(ctx, a, reg)
    [] name = N_default -> fns_default(ctx, a, reg)

\* an adapter that calls fn as soon as the first argument is evaluated
AdapterFirst(body, ctx, a, reg) ==
  LET r == EvSeq(SubSeq(a, 1, Min(1, Len(a))), ctx, reg)
  IN IF r.thrown THEN Res(Throw, r.log)
     ELSE Res(CustomApply(body, r.vs), r.log \o <<CallEvent(body, r.vs)>>)

\* the adapter registerFunction stores: (ctx, ...a) => fn(...a.map(e => ev(e, ctx)))
Adapter(body, ctx, a, reg) ==
  LET r == EvSeq(a, ctx, reg)
  IN IF r.thrown THEN Res(Throw, r.log)
     ELSE Res(CustomApply(body, r.vs), r.log \o <<CallEvent(body, r.vs)>>)

\* fn(ctx, ...a) for what the lookup fns[e.fn] returned.  A member of
\* Function.prototype called with no receiver throws a TypeError (call,
\* apply, bind, toString), and Function(ctx, ...) a SyntaxError.
Invoke(fn, ctx, a, reg) ==
  CASE fn.k = "builtin" -> CallBuiltin(fn.name, ctx, a, reg)
    [] fn.k = "custom" -> Adapter(fn.body, ctx, a, reg)
    [] fn.k = "proto" -> Res(ProtoCall(fn.name, ctx), <<>>)
    [] fn.k = "fnproto" -> Res(Throw, <<>>)

RECURSIVE Walk(_, _)
\* for (const k of e.path) { if (v == null || !has(v, k)) return undefined; v = v[k]; }
Walk(path, v) ==
  IF path = <<>> THEN v
  ELSE IF IsNullish(v) \/ ~has(v, Head(path)) THEN Undef
  ELSE Walk(Tail(path), GetProp(v, Head(path)))

UnknownError(name) == Str(S_ErrUnknownPre \o name \o S_ErrUnknownPost)

\* the left-hand expression passed after the arguments instead of before
CallArgsLeftLast(e) == IF e.t = "C" THEN e.args ELSE e.args \o <<e.left>>

\* the argument expressions a Call or Pipe passes: e.args, or e.left, ...e.args
CallArgs(e) == IF e.t = "C" THEN e.args ELSE <<e.left>> \o e.args

ev(e, ctx, reg) ==
  LET fn == RegGet(reg, e.fn)
      Called(r) == Res(r.v, <<EvEvent(e)>> \o r.log)
  IN CASE e.t = "L" -> Res(e.val, <<EvEvent(e)>>)
       [] e.t = "V" -> Res(Walk(e.path, ctx), <<EvEvent(e)>>)
       [] OTHER -> IF fn = Undef THEN Res(UnknownError(e.fn), <<EvEvent(e)>>)
                   ELSE Called(Invoke(fn, ctx, CallArgs(e), reg))

\* ------------------------------------------------------------------------
\* Nodes (type Node), esc and the renderer rn
\* ------------------------------------------------------------------------
T(val) == [t |-> "T", val |-> val]
I(expr, raw) == [t |-> "I", expr |-> expr, raw |-> raw]
Branch(cond, body) == [cond |-> cond, body |-> body]
\* else?: Node[]  is  hasElse and els
F(branches, hasElse, els) ==
  [t |-> "F", branches |-> branches, hasElse |-> hasElse, els |-> els]
\* idx?: string  is  hasIdx and idx
E(arr, as, hasIdx, idx, body, hasElse, els) ==
  [t |-> "E", arr |-> arr, as |-> as, hasIdx |-> hasIdx, idx |-> idx,
   body |-> body, hasElse |-> hasElse, els |-> els]

RECURSIVE ReplaceChar(_, _, _)
\* s.replace(/c/g, rep)
ReplaceChar(s, c, rep) ==
  IF s = <<>> THEN <<>>
  ELSE (IF Head(s) = c THEN rep ELSE <<Head(s)>>) \o ReplaceChar(Tail(s), c, rep)

\* the ampersand replaced last: the entities of the other four
\* characters are escaped again
EscAmpLast(s) ==
  ReplaceChar(
    ReplaceChar(
      ReplaceChar(
        ReplaceChar(
          ReplaceChar(s, "<", S_lt),
          ">", S_gt),
        "\"", S_quot),
      "'", S_apos),
    "&", S_amp)

esc(s) ==
  ReplaceChar(
    ReplaceChar(
      ReplaceChar(
        ReplaceChar(
          ReplaceChar(s, "&", S_amp),
          "<", S_lt),
        ">", S_gt),
      "\"", S_quot),
    "'", S_apos)

\* The result of rendering: the text, the evaluation log, whether a
\* TypeError was thrown, and the state in which the call leaves the object
\* that was passed as ctx.
Out(out, log, ctx, thrown) == [out |-> out, log |-> log, ctx |-> ctx, thrown |-> thrown]

\* obj[key] = val: assigning __proto__ a non-object reaches the inherited
\* setter, which ignores it, unless obj has an own property of that name
SetProp(m, key, val) ==
  IF key = P_proto /\ key \notin DOMAIN m THEN m
  ELSE [x \in DOMAIN m \cup {key} |-> IF x = key THEN val ELSE m[x]]

\* { ...ctx, [as]: el }: a computed key always defines an own property
Spread(m, key, val) ==
  [x \in DOMAIN m \cup {key} |-> IF x = key THEN val ELSE m[x]]

\* the bindings written into ctx itself instead of a copy
LoopInPlace(ctx, n, el, i) ==
  LET m1 == Spread(ctx.m, n.as, el)
      m2 == IF n.hasIdx /\ n.idx # <<>> THEN SetProp(m1, n.idx, IntV(i)) ELSE m1
  IN [local |-> Obj(m2, ctx.id), outer |-> Obj(m2, ctx.id)]

\* const local = { ...ctx, [n.as]: arr[i] }; if (n.idx) local[n.idx] = i;
\* local is the new object the body is rendered against and outer is the
\* state of the object ctx after the statement.
LoopLocal(ctx, n, el, i) ==
  LET m1 == Spread(ctx.m, n.as, el)
      m2 == IF n.hasIdx /\ n.idx # <<>> THEN SetProp(m1, n.idx, IntV(i)) ELSE m1
  IN [local |-> Obj(m2, DataId(Append(ctx.id.p, <<"#">> \o NatToStr(i)))),
      outer |-> ctx]

\* Interpolation: the text for the value v
InterpText(v, raw) ==
  IF v.k = "arr" THEN S_ErrUseEach
  ELSE IF v.k = "obj" THEN S_ErrObject
  ELSE LET s == IF IsNullish(v) THEN <<>> ELSE ToStr(v)
       IN IF raw THEN s ELSE esc(s)

RECURSIVE rn(_, _, _)
RECURSIVE RenderNode(_, _, _)
RECURSIVE Branches(_, _, _, _)
RECURSIVE EachLoop(_, _, _, _, _)

RECURSIVE BranchesNoBreak(_, _, _, _)
\* the loop over the branches without its break: every branch with a
\* truthy condition is rendered
BranchesNoBreak(n, bs, ctx, reg) ==
  LET Join(c, r, rest) ==
        Out(r.out \o rest.out, c.log \o r.log \o rest.log, rest.ctx, rest.thrown)
      Rest(c, rest) == Out(rest.out, c.log \o rest.log, rest.ctx, rest.thrown)
      Cond(c) ==
        IF c.v = Throw THEN Out(<<>>, c.log, ctx, TRUE)
        ELSE IF truthy(c.v)
          THEN Join(c, rn(Head(bs).body, ctx, reg),
                    BranchesNoBreak([n EXCEPT !.hasElse = FALSE], Tail(bs), ctx, reg))
        ELSE Rest(c, BranchesNoBreak(n, Tail(bs), ctx, reg))
  IN IF bs = <<>>
     THEN (IF n.hasElse THEN rn(n.els, ctx, reg) ELSE Out(<<>>, <<>>, ctx, FALSE))
     ELSE Cond(ev(Head(bs).cond, ctx, reg))

\* for (const b of n.branches) if (truthy(ev(b.cond, ctx))) { ...; break; }
\* if (!matched && n.else) out += rn(n.else, ctx);
Branches(n, bs, ctx, reg) ==
  LET Body(c, r) == Out(r.out, c.log \o r.log, r.ctx, r.thrown)
      Cond(c) == IF c.v = Throw THEN Out(<<>>, c.log, ctx, TRUE)
                 ELSE IF truthy(c.v) THEN Body(c, rn(Head(bs).body, ctx, reg))
                 ELSE Body(c, Branches(n, Tail(bs), ctx, reg))
  IN IF bs = <<>>
     THEN (IF n.hasElse THEN rn(n.els, ctx, reg) ELSE Out(<<>>, <<>>, ctx, FALSE))
     ELSE Cond(ev(Head(bs).cond, ctx, reg))

\* for (let i = 0; i < arr.length; i++) { ...; out += rn(n.body, local); }
EachLoop(n, arr, i, ctx, reg) ==
  LET Join(r, rest) ==
        Out(r.out \o rest.out, r.log \o rest.log, rest.ctx, rest.thrown)
      Body(b, r) == IF r.thrown THEN Out(r.out, r.log, b.outer, TRUE)
                    ELSE Join(r, EachLoop(n, arr, i + 1, b.outer, reg))
      Iter(b) == Body(b, rn(n.body, b.local, reg))
  IN IF i >= Len(arr) THEN Out(<<>>, <<>>, ctx, FALSE)
     ELSE Iter(LoopLocal(ctx, n, arr[i + 1], i))

\* if (n.t === "T") ...; if (n.t === "I") ...; if (n.t === "F") ...; if (n.t === "E") ...
RenderNode(n, ctx, reg) ==
  LET Interp(r) == IF r.v = Throw THEN Out(<<>>, r.log, ctx, TRUE)
                   ELSE Out(InterpText(r.v, n.raw), r.log, ctx, FALSE)
      Looped(r, b) == Out(b.out, r.log \o b.log, b.ctx, b.thrown)
      Each(r) == IF r.v = Throw THEN Out(<<>>, r.log, ctx, TRUE)
                 ELSE IF r.v.k # "arr" THEN Out(S_ErrEachArray, r.log, ctx, FALSE)
                 ELSE IF Len(r.v.a) = 0 /\ n.hasElse THEN Looped(r, rn(n.els, ctx, reg))
                 ELSE Looped(r, EachLoop(n, r.v.a, 0, ctx, reg))
  IN CASE n.t = "T" -> Out(n.val, <<>>, ctx, FALSE)
       [] n.t = "I" -> Interp(ev(n.expr, ctx, reg))
       [] n.t = "F" -> Branches(n, n.branches, ctx, reg)
       [] n.t = "E" -> Each(ev(n.arr, ctx, reg))

\* let out = ""; for (const n of nodes) { ... } return out;
rn(nodes, ctx, reg) ==
  LET Join(h, rest) ==
        Out(h.out \o rest.out, h.log \o rest.log, rest.ctx, rest.thrown)
      Node(h) == IF h.thrown THEN h ELSE Join(h, rn(Tail(nodes), h.ctx, reg))
  IN IF nodes = <<>> THEN Out(<<>>, <<>>, ctx, FALSE)
     ELSE Node(RenderNode(Head(nodes), ctx, reg))

\* ------------------------------------------------------------------------
\* The parser of compile: a cursor pos over src
\* ------------------------------------------------------------------------
\* The cursor, with two records of what happened to it so far:
\*   mono  every assignment to pos left it within 0..src.length and did not
\*         decrease it;
\*   adv   every iteration of the node loop and of the argument loops, and
\*         every parseExpr that started before the end of the input,
\*         advanced pos.
\* A loop whose iteration does not advance is left at once with adv false
\* (the program would repeat the iteration for ever).
Cursor(pos) == [pos |-> pos, mono |-> TRUE, adv |-> TRUE]

\* pos = p
Move(src, st, p) ==
  [pos |-> p, mono |-> st.mono /\ p >= st.pos /\ p <= Len(src), adv |-> st.adv]

Stalled(st) == [st EXCEPT !.adv = FALSE]

\* src[pos], or "" for undefined beyond the end
CharAt(src, pos) == IF pos >= 0 /\ pos < Len(src) THEN src[pos + 1] ELSE ""

RECURSIVE skipWs(_, _)
skipWs(src, st) ==
  IF st.pos < Len(src) /\ IsWs(CharAt(src, st.pos))
  THEN skipWs(src, Move(src, st, st.pos + 1))
  ELSE st

\* src.slice(pos, pos + s.length) === s
at(src, st, s) ==
  Slice(src, Min(st.pos, Len(src)), Min(st.pos + Len(s), Len(src))) = s

\* a skip that does not look at the input first
skipBlind(src, st, s) == Move(src, st, st.pos + Len(s))

skip(src, st, s) == IF at(src, st, s) THEN Move(src, st, st.pos + Len(s)) ELSE st

RECURSIVE IdentLoop(_, _, _)
IdentLoop(src, st, r) ==
  IF st.pos < Len(src) /\ IsWord(CharAt(src, st.pos))
  THEN IdentLoop(src, Move(src, st, st.pos + 1), Append(r, CharAt(src, st.pos)))
  ELSE [r |-> r, st |-> st]

ident(src, st) == IdentLoop(src, st, <<>>)

\* the character an escape sequence \c stands for
Unescape(c) == IF c = "n" THEN "\n" ELSE IF c = "t" THEN "\t" ELSE IF c = "r" THEN "\r" ELSE c

RECURSIVE StringLoop(_, _, _, _)
\* while (pos < src.length && src[pos] !== q) { ... }
StringLoop(src, st, q, s) ==
  IF st.pos < Len(src) /\ CharAt(src, st.pos) # q
  THEN IF CharAt(src, st.pos) = "\\" /\ st.pos + 1 < Len(src)
       THEN LET s1 == Move(src, st, st.pos + 1)
            IN StringLoop(src, Move(src, s1, s1.pos + 1), q,
                          Append(s, Unescape(CharAt(src, s1.pos))))
       ELSE StringLoop(src, Move(src, st, st.pos + 1), q, Append(s, CharAt(src, st.pos)))
  ELSE [r |-> s, st |-> st]

\* String literal: "..." or '...'
ParseString(src, st) ==
  LET q == CharAt(src, st.pos)
      body == StringLoop(src, Move(src, st, st.pos + 1), q, <<>>)
  IN IF body.st.pos < Len(src)
     THEN [expr |-> L(Str(body.r)), st |-> Move(src, body.st, body.st.pos + 1)]
     ELSE [expr |-> L(Str(<<>>)), st |-> body.st]

RECURSIVE NumberLoop(_, _, _, _)
\* while (pos < src.length && (/[0-9]/.test(src[pos]) || (src[pos] === "." && !dot++)))
NumberLoop(src, st, s, dot) ==
  IF st.pos < Len(src) /\ IsDigit(CharAt(src, st.pos))
  THEN NumberLoop(src, Move(src, st, st.pos + 1), Append(s, CharAt(src, st.pos)), dot)
  ELSE IF st.pos < Len(src) /\ CharAt(src, st.pos) = "."
  THEN IF dot = 0
       THEN NumberLoop(src, Move(src, st, st.pos + 1), Append(s, "."), dot + 1)
       ELSE [r |-> s, st |-> st]
  ELSE [r |-> s, st |-> st]

\* Number literal: integers, decimals, negative numbers
ParseNumber(src, st) ==
  LET a == IF CharAt(src, st.pos) = "-"
           THEN [s |-> <<"-">>, st |-> Move(src, st, st.pos + 1)]
           ELSE [s |-> <<>>, st |-> st]
      b == IF CharAt(src, a.st.pos) = "."
           THEN [s |-> Append(a.s, "."), st |-> Move(src, a.st, a.st.pos + 1), dot |-> 1]
           ELSE [s |-> a.s, st |-> a.st, dot |-> 0]
      run == NumberLoop(src, b.st, b.s, b.dot)
      s == run.r
  IN [expr |-> IF s = <<"-">> \/ s = <<".">> \/ s = <<>>
               THEN V(<<IF s = <<>> THEN <<"-">> ELSE s>>)
               ELSE L(ParseFloat(s)),
      st |-> run.st]

RECURSIVE parseExpr(_, _)
RECURSIVE ArgLoop(_, _, _)

\* while (pos < src.length && src[pos] !== ")" && src[pos] !== "}") {
\*   args.push(parseExpr()); skipWs(); if (src[pos] === ",") { pos++; skipWs(); } }
ArgLoop(src, st, args) ==
  IF st.pos < Len(src) /\ CharAt(src, st.pos) \notin {")", "}"}
  THEN LET Pushed(r) ==
             LET s1 == skipWs(src, r.st)
                 s2 == IF CharAt(src, s1.pos) = ","
                       THEN skipWs(src, Move(src, s1, s1.pos + 1)) ELSE s1
             IN IF s2.pos <= st.pos
                THEN [args |-> Append(args, r.expr), st |-> Stalled(s2)]
                ELSE ArgLoop(src, s2, Append(args, r.expr))
       IN Pushed(parseExpr(src, st))
  ELSE [args |-> args, st |-> st]

\* after "(": skipWs(); the argument loop; if (src[pos] === ")") pos++;
ParseArgs(src, st) ==
  LET Close(r) ==
        [args |-> r.args,
         st |-> IF CharAt(src, r.st.pos) = ")" THEN Move(src, r.st, r.st.pos + 1)
                ELSE r.st]
  IN Close(ArgLoop(src, skipWs(src, st), <<>>))

RECURSIVE PathLoop(_, _, _)
\* while (src[pos] === ".") { pos++; path.push(ident()); }
PathLoop(src, st, path) ==
  IF CharAt(src, st.pos) = "."
  THEN LET r == ident(src, Move(src, st, st.pos + 1))
       IN PathLoop(src, r.st, Append(path, r.r))
  ELSE [path |-> path, st |-> st]

\* Identifier: variable, function call, or keyword (true/false/null)
ParseIdentExpr(src, st) ==
  LET n == ident(src, st)
      name == n.r
      s1 == skipWs(src, n.st)
      Call(a) == [expr |-> C(name, a.args), st |-> a.st]
      Var(p) == [expr |-> V(p.path), st |-> p.st]
  IN IF name = S_true THEN [expr |-> L(Bool(TRUE)), st |-> n.st]
     ELSE IF name = S_false THEN [expr |-> L(Bool(FALSE)), st |-> n.st]
     ELSE IF name = S_null THEN [expr |-> L(Null), st |-> n.st]
     ELSE IF CharAt(src, s1.pos) = "("
     THEN Call(ParseArgs(src, Move(src, s1, s1.pos + 1)))
     ELSE Var(PathLoop(src, s1, <<name>>))

RECURSIVE PipeLoop(_, _, _)
\* while (src[pos] === "|") { ...; expr = { t: "P", left: expr, fn, args }; skipWs(); }
PipeLoop(src, st, expr) ==
  IF CharAt(src, st.pos) = "|"
  THEN LET f == ident(src, skipWs(src, Move(src, st, st.pos + 1)))
           s1 == skipWs(src, f.st)
           Piped(a) == PipeLoop(src, skipWs(src, a.st), P(expr, f.r, a.args))
       IN Piped(IF CharAt(src, s1.pos) = "("
                THEN ParseArgs(src, Move(src, s1, s1.pos + 1))
                ELSE [args |-> <<>>, st |-> s1])
  ELSE [expr |-> expr, st |-> st]

\* parseExpr without its safety rule
SafetyOff(src, st, start) == st

\* if (pos === start && pos < src.length) pos++;
Safety(src, st, start) ==
  IF st.pos = start /\ st.pos < Len(src) THEN Move(src, st, st.pos + 1) ELSE st

parseExpr(src, st0) ==
  LET s1 == skipWs(src, st0)
      start == s1.pos
      ch == CharAt(src, start)
      Done(end, expr) ==
        [expr |-> expr,
         st |-> IF st0.pos < Len(src) /\ end.pos <= st0.pos THEN Stalled(end) ELSE end]
      Piped(r) == Done(Safety(src, r.st, start), r.expr)
      Base(b) == Piped(PipeLoop(src, skipWs(src, b.st), b.expr))
  IN Base(IF ch = "\"" \/ ch = "'" THEN ParseString(src, s1)
          ELSE IF ch = "-" \/ ch = "." \/ IsDigit(ch) THEN ParseNumber(src, s1)
          ELSE ParseIdentExpr(src, s1))

IfStops == <<T_elseIf, T_elseif, T_else, T_endIf>>
EachStops == <<T_else, T_endEach>>

AtAny(src, st, stops) == \E i \in DOMAIN stops : at(src, st, stops[i])

RECURSIVE ScanTo(_, _, _)
\* while (pos < src.length && !at(s)) pos++;
ScanTo(src, st, s) ==
  IF st.pos < Len(src) /\ ~at(src, st, s) THEN ScanTo(src, Move(src, st, st.pos + 1), s) ELSE st

RECURSIVE TextRunNoEscape(_, _, _, _)
\* a text run that does not stop at \{{: the backslash is taken as text
\* and the braces after it open a tag
TextRunNoEscape(src, st, stops, text) ==
  IF st.pos < Len(src)
     /\ ~AtAny(src, st, stops)
     /\ ~at(src, st, T_open)
  THEN TextRunNoEscape(src, Move(src, st, st.pos + 1), stops,
                       Append(text, CharAt(src, st.pos)))
  ELSE [text |-> text, st |-> st]

RECURSIVE TextRunDropSlash(_, _, _, _)
\* a text run that takes every backslash as an escape and drops it
TextRunDropSlash(src, st, stops, text) ==
  IF st.pos < Len(src)
     /\ ~AtAny(src, st, stops)
     /\ ~(CharAt(src, st.pos) = "\\" /\ at(src, st, T_escOpen))
     /\ ~at(src, st, T_open)
  THEN TextRunDropSlash(src, Move(src, st, st.pos + 1), stops,
                        IF CharAt(src, st.pos) = "\\" THEN text
                        ELSE Append(text, CharAt(src, st.pos)))
  ELSE [text |-> text, st |-> st]

RECURSIVE TextRun(_, _, _, _)
\* Plain text: consume until next tag or stop sequence
TextRun(src, st, stops, text) ==
  IF st.pos < Len(src)
     /\ ~AtAny(src, st, stops)
     /\ ~(CharAt(src, st.pos) = "\\" /\ at(src, st, T_escOpen))
     /\ ~at(src, st, T_open)
  THEN TextRun(src, Move(src, st, st.pos + 1), stops, Append(text, CharAt(src, st.pos)))
  ELSE [text |-> text, st |-> st]

RECURSIVE parseNodes(_, _, _)
RECURSIVE ElseIfLoop(_, _, _)

\* const cond = parseExpr(); skipWs(); skip("}}"); branches.push({ cond, body: parseNodes([...]) })
ParseBranch(src, st) ==
  LET Make(c, b) == [branch |-> Branch(c.expr, b.nodes), st |-> b.st]
      Body(c) == Make(c, parseNodes(src, skip(src, skipWs(src, c.st), T_close), IfStops))
  IN Body(parseExpr(src, st))

\* while (at("{{:else if") || at("{{:elseif")) { pos += at("{{:elseif") ? 9 : 10; ... }
ElseIfLoop(src, st, branches) ==
  IF at(src, st, T_elseIf) \/ at(src, st, T_elseif)
  THEN LET s1 == Move(src, st, st.pos + (IF at(src, st, T_elseif) THEN 9 ELSE 10))
           Pushed(b) == ElseIfLoop(src, b.st, Append(branches, b.branch))
       IN Pushed(ParseBranch(src, skipWs(src, s1)))
  ELSE [branches |-> branches, st |-> st]

\* a parser that insists on the close tag: where it is missing, an error
\* text is put in the block's fallback
ParseElseStrict(src, st, close) ==
  LET Close(e) ==
        IF at(src, e.st, close)
        THEN [hasElse |-> e.hasElse, els |-> e.els, st |-> skip(src, e.st, close)]
        ELSE [hasElse |-> TRUE, els |-> e.els \o <<T(S_ErrPre \o close)>>, st |-> e.st]
      Else(b) == [hasElse |-> TRUE, els |-> b.nodes, st |-> b.st]
  IN Close(IF at(src, st, T_else)
           THEN Else(parseNodes(src, Move(src, st, st.pos + 9), <<close>>))
           ELSE [hasElse |-> FALSE, els |-> <<>>, st |-> st])

\* a block parser that leaves {{:else}} to the parser of the enclosing
\* block
ParseElseOuter(src, st, close) ==
  [hasElse |-> FALSE, els |-> <<>>,
   st |-> IF at(src, st, T_else) THEN st ELSE skip(src, st, close)]

\* if (at("{{:else}}")) { pos += 9; elseBody = parseNodes([close]); }  skip(close);
ParseElse(src, st, close) ==
  LET Close(e) == [hasElse |-> e.hasElse, els |-> e.els, st |-> skip(src, e.st, close)]
      Else(b) == [hasElse |-> TRUE, els |-> b.nodes, st |-> b.st]
  IN Close(IF at(src, st, T_else)
           THEN Else(parseNodes(src, Move(src, st, st.pos + 9), <<close>>))
           ELSE [hasElse |-> FALSE, els |-> <<>>, st |-> st])

\* Conditional block: {{#if cond}}...{{:else if cond}}...{{:else}}...{{/if}}
ParseIf(src, st) ==
  LET Make(bs, e) == [nodes |-> <<F(bs.branches, e.hasElse, e.els)>>, st |-> e.st]
      Else(bs) == Make(bs, ParseElse(src, bs.st, T_endIf))
      Rest(b1) == Else(ElseIfLoop(src, b1.st, <<b1.branch>>))
  IN Rest(ParseBranch(src, st))

\* Loop block: {{#each arr as item, index}}...{{:else}}...{{/each}}
ParseEach(src, st) ==
  LET Names(a) ==
        LET kw == ident(src, skipWs(src, a.st))
            s1 == skipWs(src, kw.st)
            item == ident(src, s1)
            s2 == skipWs(src, item.st)
            i == ident(src, skipWs(src, Move(src, s2, s2.pos + 1)))
            idx == IF CharAt(src, s2.pos) = ","
                   THEN [hasIdx |-> TRUE, idx |-> i.r, st |-> skipWs(src, i.st)]
                   ELSE [hasIdx |-> FALSE, idx |-> <<>>, st |-> s2]
            Make(body, e) ==
              [nodes |-> <<E(a.expr, item.r, idx.hasIdx, idx.idx, body.nodes,
                             e.hasElse, e.els)>>,
               st |-> e.st]
            Else(body) == Make(body, ParseElse(src, body.st, T_endEach))
        IN IF kw.r # S_as THEN [nodes |-> <<T(S_ErrMissingAs)>>, st |-> s1]
           ELSE Else(parseNodes(src, skip(src, idx.st, T_close), EachStops))
  IN Names(parseExpr(src, st))

\* Block: {{#if ...}} or {{#each ...}}, or an unknown block type
ParseBlock(src, st) ==
  LET kw == ident(src, Move(src, st, st.pos + 1))
      s1 == skipWs(src, kw.st)
  IN IF kw.r = S_if THEN ParseIf(src, s1)
     ELSE IF kw.r = S_each THEN ParseEach(src, s1)
     ELSE [nodes |-> <<T(S_ErrUnknownBlock \o kw.r \o <<"]">>)>>,
           st |-> skip(src, skipWs(src, s1), T_close)]

\* Raw output: {{+ expr +}}
ParseRaw(src, st) ==
  LET Close(e) ==
        LET s1 == skipWs(src, skip(src, skipWs(src, e.st), <<"+">>))
        IN [nodes |-> <<I(e.expr, TRUE)>>,
            st |-> skip(src, ScanTo(src, s1, T_close), T_close)]
  IN Close(parseExpr(src, skipWs(src, Move(src, st, st.pos + 1))))

\* Simple interpolation: {{ expr }}
ParseInterp(src, st) ==
  LET Close(e) ==
        [nodes |-> <<I(e.expr, FALSE)>>,
         st |-> skip(src, ScanTo(src, skipWs(src, e.st), T_close), T_close)]
  IN Close(parseExpr(src, st))

\* Template tag: {{ ... }}
ParseTag(src, st) ==
  LET s1 == skipWs(src, Move(src, st, st.pos + 2))
  IN IF CharAt(src, s1.pos) = "+" THEN ParseRaw(src, s1)
     ELSE IF CharAt(src, s1.pos) = "#" THEN ParseBlock(src, s1)
     ELSE ParseInterp(src, s1)

\* one iteration of the node loop that does not break
ParseNode(src, st, stops) ==
  IF CharAt(src, st.pos) = "\\" /\ at(src, st, T_escOpen)
  THEN [nodes |-> <<T(T_open)>>, st |-> Move(src, Move(src, st, st.pos + 1), st.pos + 3)]
  ELSE IF at(src, st, T_open) THEN ParseTag(src, st)
  ELSE LET r == TextRun(src, st, stops, <<>>)
       IN [nodes |-> IF r.text # <<>> THEN <<T(r.text)>> ELSE <<>>, st |-> r.st]

\* outer: while (pos < src.length) { for (const s of stops) if (at(s)) break outer; ... }
parseNodes(src, st, stops) ==
  LET Join(n, rest) == [nodes |-> n.nodes \o rest.nodes, st |-> rest.st]
      Step(n) == IF n.st.pos <= st.pos THEN [nodes |-> n.nodes, st |-> Stalled(n.st)]
                 ELSE Join(n, parseNodes(src, n.st, stops))
  IN IF st.pos < Len(src) /\ ~AtAny(src, st, stops)
     THEN Step(ParseNode(src, st, stops))
     ELSE [nodes |-> <<>>, st |-> st]

\* ------------------------------------------------------------------------
\* Data handed to templates
\* ------------------------------------------------------------------------
RECURSIVE Label(_, _)
\* the value v held by the data under the path p: every array and mapping
\* in it is an object of its own, identified by its path
Label(v, p) ==
  CASE v.k = "arr" ->
         Arr([i \in DOMAIN v.a |-> Label(v.a[i], Append(p, NatToStr(i - 1)))], DataId(p))
    [] v.k = "obj" ->
         Obj([key \in DOMAIN v.m |-> Label(v.m[key], Append(p, key))], DataId(p))
    [] OTHER -> v

\* array and mapping literals of the caller's data
A(a) == Arr(a, FreshId)
O(m) == Obj(m, FreshId)
\* a data mapping passed to a template
Data(m) == Label(O(m), <<>>)

\* ------------------------------------------------------------------------
\* The public operations
\* ------------------------------------------------------------------------
\* one cursor shared by all compiles: a compile starts where an earlier
\* one stopped
SharedPos == IF trees = {} THEN 0 ELSE (CHOOSE t \in trees : TRUE).tree.end.pos

\* let src = tmpl, pos = 0: every compile starts a cursor of its own at 0
StartPos == 0

\* compile(tmpl): the tree parsed from tmpl; the Template returned renders
\* that tree.  end is the cursor when parseNodes returned.
compile(tmpl) ==
  LET r == parseNodes(tmpl, Cursor(StartPos), <<>>)
  IN [src |-> tmpl, ast |-> r.nodes, end |-> r.st]

\* a registration that keeps an entry already present
registerOnce(reg, name, body) ==
  [n \in DOMAIN reg \cup {name} |-> IF n \in DOMAIN reg THEN reg[n] ELSE Custom(body)]

\* fns[name] = (ctx, ...a) => fn(...a.map((e) => ev(e, ctx)))
registerFunction(reg, name, body) ==
  [n \in DOMAIN reg \cup {name} |-> IF n = name THEN Custom(body) ELSE reg[n]]

\* ------------------------------------------------------------------------
\* The inputs of the model
\* ------------------------------------------------------------------------
\* the names under which the host registers functions
RegNames == {K_f, N_eq}

\* the names a host may pass to registerFunction: any string
HostNames == RegNames \cup {P_proto}

\* the templates and data of the caller
Templates == {Tm_shadow, Tm_call, Tm_eq, Tm_proto}

D_empty == Data(<<>>)
D_items == Data(K_items :> A(<<IntV(1), IntV(2)>>) @@ K_x :> Str(K_outer))
DataSet == {D_empty, D_items}

\* the contexts expressions are evaluated against
D_rich ==
  Data(K_x :> Str(K_outer)
       @@ K_a :> O(K_b :> Str(K_v) @@ P_constructor :> Str(K_own))
       @@ K_xs :> A(<<Str(K_p), Null>>)
       @@ K_s :> Str(K_hi)
       @@ K_nul :> Null
       @@ K_n :> IntV(5))
CtxSet == {D_empty, D_rich}

\* the sequences over S of length lo..hi
Seqs(S, lo, hi) == UNION {[1..k -> S] : k \in lo..hi}

\* argument expressions without and with effects of their own
SimpleAtoms == {V(<<K_x>>), L(IntV(1))}
RichAtoms == {L(Null), L(IntV(1)), V(<<K_x>>), C(K_f, <<>>), C(P_valueOf, <<>>)}

\* function names of calls: built-ins, a registered name, an unknown
\* name, and names the registry object only inherits
CallNames == BuiltinNames \cup {K_f, K_g} \cup ProtoNames

\* path segments of variables
Segs == {K_x, K_a, K_b, K_xs, K_s, K_nul, <<"0">>, <<"2">>, N_length, P_constructor,
         P_proto, P_hasOwnProperty}

ExprSet ==
  {C(n, a) : n \in CallNames, a \in Seqs(SimpleAtoms, 0, MaxArgs)}
  \cup {C(n, a) : n \in {N_and, N_or, K_f}, a \in Seqs(RichAtoms, 0, MaxArgs)}
  \cup {P(l, n, a) : l \in {V(<<K_x>>), C(K_f, <<>>)}, n \in CallNames,
                     a \in Seqs(SimpleAtoms, 0, MaxArgs - 1)}
  \cup {P(P(V(<<K_x>>), f, <<>>), g, a) :
          f \in {K_f, N_uppercase}, g \in {K_f, K_g, N_truncate, N_default},
          a \in Seqs(SimpleAtoms, 0, 1)}
  \cup {V(p) : p \in Seqs(Segs, 1, MaxPath)}

\* the pieces template texts are put together from
Pieces ==
  {T_open, T_close, T_else, T_endIf, T_endEach, <<"{", "{", "#", "i", "f", " ">>,
   <<"{", "{", "#", "e", "a", "c", "h", " ", "x", " ", "a", "s", " ">>,
   <<"x">>, <<"f", "(">>, <<")">>, <<"\"">>, <<"\\">>, <<"|">>, <<",">>, <<"-", ".">>,
   <<"@">>}

GenTemplates == {Concat(ps) : ps \in Seqs(Pieces, 0, MaxPieces)}

\* ------------------------------------------------------------------------
\* The state machine
\* ------------------------------------------------------------------------
None == [op |-> "none"]

InitCommon ==
  /\ fns = InitFns
  /\ latest = [n \in HostNames |-> "none"]
  /\ trees = {}
  /\ last = None

Init == InitCommon /\ input = None

\* registerFunction(name, fn)
RegisterFunction(name, body) ==
  /\ fns' = registerFunction(fns, name, body)
  /\ latest' = [latest EXCEPT ![name] = body]
  /\ trees' = {[t EXCEPT !.stale = TRUE] : t \in trees}
  /\ last' = None
  /\ UNCHANGED input

\* const t = compile(tmpl), the caller keeping t
Compile(tmpl) ==
  /\ Cardinality(trees) < MaxTrees
  /\ trees' = trees \cup {[tree |-> compile(tmpl), stale |-> FALSE]}
  /\ last' = None
  /\ UNCHANGED <<fns, latest, input>>

\* t(data) for a compiled template t the caller holds
Render(t, data) ==
  /\ t \in trees
  /\ last' = [op |-> "render", src |-> t.tree.src, data |-> data,
              stale |-> t.stale, once |-> FALSE,
              res |-> rn(t.tree.ast, data, fns)]
  /\ UNCHANGED <<fns, latest, trees, input>>

\* render(tmpl, data) == compile(tmpl)(data)
RenderOnce(tmpl, data) ==
  /\ last' = [op |-> "render", src |-> tmpl, data |-> data,
              stale |-> FALSE, once |-> TRUE,
              res |-> rn(compile(tmpl).ast, data, fns)]
  /\ UNCHANGED <<fns, latest, trees, input>>

Next ==
  \/ \E name \in RegNames, body \in CustomBodies : RegisterFunction(name, body)
  \/ \E tmpl \in Templates : Compile(tmpl)
  \/ \E t \in trees, data \in DataSet : Render(t, data)
  \/ \E tmpl \in Templates, data \in DataSet : RenderOnce(tmpl, data)

Spec == Init /\ [][Next]_vars

\* -- the evaluator on its own: one expression and context, any registry --
InitEv ==
  /\ InitCommon
  /\ input \in {[op |-> "ev", e |-> e, ctx |-> ctx] : e \in ExprSet, ctx \in CtxSet}

\* ev(e, ctx)
Eval ==
  /\ input.op = "ev"
  /\ last.op = "none"
  /\ last' = [op |-> "ev", res |-> ev(input.e, input.ctx, fns)]
  /\ UNCHANGED <<fns, latest, trees, input>>

NextEv ==
  \/ \E body \in CustomBodies : RegisterFunction(K_f, body)
  \/ Eval

SpecEv == InitEv /\ [][NextEv]_vars

\* -- the parser on its own: compile of any text put together from Pieces --
InitParse ==
  /\ InitCommon
  /\ input \in {[op |-> "text", src |-> t] : t \in GenTemplates}

CompileInput ==
  /\ input.op = "text"
  /\ trees = {}
  /\ trees' = {[tree |-> compile(input.src), stale |-> FALSE]}
  /\ UNCHANGED <<fns, latest, last, input>>

NextParse == CompileInput

SpecParse == InitParse /\ [][NextParse]_vars

\* -- render(tmpl, data) on its own: one template and data, any registry --
RECURSIVE ElseIfs(_, _)
\* {{:else if c}}i for the conditions cs[i], cs[i + 1], ...
ElseIfs(cs, i) ==
  IF i > Len(cs) THEN <<>>
  ELSE Tx_elseIfOpen \o cs[i] \o T_close \o NatToStr(i) \o ElseIfs(cs, i + 1)

\* {{#if c1}}1{{:else if c2}}2...{{:else}}e{{/if}}: branch i renders the
\* text i and the fallback the text e
IfText(cs, els) ==
  Tx_ifOpen \o cs[1] \o T_close \o NatToStr(1) \o ElseIfs(cs, 2)
    \o (IF els THEN T_else \o Tx_else ELSE <<>>) \o T_endIf

\* the texts of conditions: a string, null, a call of f (registered or
\* not) and a call that throws
CondTexts == {K_x, K_nul, Tx_callF, Tx_callValueOf}

IfInputs ==
  {[op |-> "tmpl", kind |-> "if", src |-> IfText(cs, els), data |-> D_rich,
    conds |-> cs, els |-> els] :
     cs \in Seqs(CondTexts, 1, MaxBranches), els \in BOOLEAN}

\* the data loops are rendered against: a sequence of two, an empty
\* sequence and a string
D_loop ==
  Data(K_xs :> A(<<Str(K_p), Str(K_hi)>>)
       @@ K_items :> A(<<>>)
       @@ K_x :> Str(K_outer))

\* {{#each src as el, idx}}[{{el}}:{{idx}}]{{:else}}e{{/each}}; without an
\* index name the body reads i, which nothing binds
EachText(src, as, hasIdx, idx, els) ==
  Tx_eachOpen \o src \o Tx_asKw \o as \o (IF hasIdx THEN Tx_comma \o idx ELSE <<>>)
    \o T_close
    \o Tx_lbr \o T_open \o as \o T_close \o Tx_colon
    \o T_open \o (IF hasIdx THEN idx ELSE K_i) \o T_close \o Tx_rbr
    \o (IF els THEN T_else \o Tx_else ELSE <<>>) \o T_endEach

\* the texts of loop sources: a sequence, an empty sequence, a string, an
\* absent key, and a call of f (registered or not) on a sequence
SourceTexts == {K_xs, K_items, K_x, K_nul, Tx_callFxs}

\* index declarations: none, i, and a name every object inherits
IdxNames == {<<>>, K_i, P_proto}

EachInputs ==
  {[op |-> "tmpl", kind |-> "each", data |-> D_loop,
    src |-> EachText(s, as, idx # <<>>, idx, els),
    as |-> as, hasIdx |-> idx # <<>>, idx |-> idx, els |-> els] :
     s \in SourceTexts, as \in {K_v, K_x}, idx \in IdxNames, els \in BOOLEAN}

\* values to interpolate, each under a key of its own; g is not a key
D_text ==
  Data(K_xs :> A(<<Str(K_p)>>)
       @@ K_items :> A(<<>>)
       @@ K_a :> O(K_b :> Str(K_v))
       @@ K_nul :> Null
       @@ K_s :> Str(Tx_markup)
       @@ K_x :> Str(Tx_entities)
       @@ K_hi :> Str(<<>>)
       @@ K_n :> IntV(5)
       @@ K_p :> Num(25, 1)
       @@ K_b :> Bool(TRUE)
       @@ K_f :> Bool(FALSE)
       @@ K_v :> NaN)

\* the keys that hold a string, a number or a boolean, with the string
\* form JavaScript gives the value
StringForms ==
  K_s :> Tx_markup @@ K_x :> Tx_entities @@ K_hi :> <<>> @@ K_n :> Tx_five
    @@ K_p :> Tx_half @@ K_b :> S_true @@ K_f :> S_false @@ K_v :> S_NaN

\* {{ key }}, {{+ key +}} and {{+ key }}
TagText(key, form) ==
  CASE form = "escaped" -> Tx_open \o key \o Tx_close
    [] form = "raw" -> Tx_rawOpen \o key \o Tx_rawClose
    [] form = "rawOpen" -> Tx_rawOpen \o key \o Tx_close

InterpInputs ==
  {[op |-> "tmpl", kind |-> "interp", data |-> D_text, src |-> TagText(key, form),
    key |-> key, raw |-> form # "escaped"] :
     key \in DOMAIN D_text.m \cup {K_g}, form \in {"escaped", "raw", "rawOpen"}}

\* values of every kind, each under a key of its own; g is not a key
D_truth ==
  Data(K_nul :> Null
       @@ K_f :> Bool(FALSE)
       @@ K_n :> IntV(0)
       @@ K_hi :> Str(<<>>)
       @@ K_v :> NaN
       @@ K_items :> A(<<>>)
       @@ K_a :> O(<<>>)
       @@ K_b :> Bool(TRUE)
       @@ K_p :> IntV(-1)
       @@ K_i :> Num(5, 1)
       @@ K_s :> Str(Tx_zero)
       @@ K_x :> Str(Tx_space)
       @@ K_xs :> A(<<Null>>)
       @@ K_outer :> A(<<A(<<>>)>>)
       @@ K_own :> O(K_a :> Bool(FALSE)))

\* the keys of D_truth holding null, false, 0, "", NaN, [] and {}, and the
\* missing key
FalsyKeys == {K_nul, K_g, K_f, K_n, K_hi, K_v, K_items, K_a}

\* a conditional on key, not(key), and and/or/default of key and f()
TruthText(key, form) ==
  CASE form = "if" -> IfText(<<key>>, TRUE)
    [] form = "not" -> Tx_notOpen \o key \o Tx_callClose
    [] form = "and" -> Tx_andOpen \o key \o Tx_thenF
    [] form = "or" -> Tx_orOpen \o key \o Tx_thenF
    [] form = "default" -> Tx_defaultOpen \o key \o Tx_thenF

TruthInputs ==
  {[op |-> "tmpl", kind |-> "truthy", data |-> D_truth, src |-> TruthText(key, form),
    key |-> key, form |-> form] :
     key \in DOMAIN D_truth.m \cup {K_g}, form \in {"if", "not", "and", "or", "default"}}

\* an each tag without the keyword as, followed by the text rest:
\* {{#each xs}}, {{#each xs v}} and {{#each xs in v}}
NoAsInputs ==
  {[op |-> "tmpl", kind |-> "noAs", data |-> D_loop,
    src |-> Tx_eachXs \o words \o T_close \o rest,
    tag |-> Tx_eachXs \o words \o T_close, rest |-> rest] :
     words \in {<<>>, Tx_wordV, Tx_inV},
     rest \in {<<>>, Tx_textA, Tx_interpX, Tx_textA \o T_endEach}}

\* a tag holding a string literal without its closing quote, followed by
\* the text rest: {{ "hello }}, {{ 'hello }} and {{ f("a) }}
OpenStringInputs ==
  {[op |-> "tmpl", kind |-> "openString", data |-> D_loop,
    src |-> tag \o rest, tag |-> tag, rest |-> rest] :
     tag \in {Tx_openDq, Tx_openSq, Tx_openArg},
     rest \in {<<>>, Tx_textA, Tx_interpX}}

\* operands of eq and ne: two sequences and two mappings with equal
\* contents, numbers, strings and null; g is not a key
D_eq ==
  Data(K_xs :> A(<<Str(K_p)>>)
       @@ K_items :> A(<<Str(K_p)>>)
       @@ K_a :> O(K_b :> Str(K_v))
       @@ K_own :> O(K_b :> Str(K_v))
       @@ K_n :> IntV(5)
       @@ K_p :> IntV(5)
       @@ K_s :> Str(Tx_five)
       @@ K_x :> Str(K_v)
       @@ K_nul :> Null)

\* {{ eq(k1, k2) }} and {{ ne(k1, k2) }}
EqInputs ==
  {[op |-> "tmpl", kind |-> "eq", data |-> D_eq,
    src |-> (IF fn = N_eq THEN Tx_eqOpen ELSE Tx_neOpen)
              \o k1 \o Tx_comma \o k2 \o Tx_callClose,
    fn |-> fn, k1 |-> k1, k2 |-> k2] :
     fn \in {N_eq, N_ne}, k1 \in DOMAIN D_eq.m \cup {K_g}, k2 \in DOMAIN D_eq.m \cup {K_g}}

\* values of url with the text the tests of safeUrl expect for them:
\* allowed URLs trimmed, blocked schemes and null or absent emptied
UrlCases ==
  {[url |-> Str(U_rel), out |-> U_rel], [url |-> Str(U_relPadded), out |-> U_rel],
   [url |-> Str(U_hash), out |-> U_hash], [url |-> Str(U_query), out |-> U_query],
   [url |-> Str(U_https), out |-> U_https], [url |-> Str(U_http), out |-> U_http],
   [url |-> Str(U_mailto), out |-> U_mailto], [url |-> Str(U_tel), out |-> U_tel],
   [url |-> Str(U_ftp), out |-> U_ftp],
   [url |-> Str(U_js), out |-> <<>>], [url |-> Str(U_jsUpper), out |-> <<>>],
   [url |-> Str(U_data), out |-> <<>>], [url |-> Str(U_vbs), out |-> <<>>],
   [url |-> Null, out |-> <<>>], [url |-> Undef, out |-> <<>>]}

\* {{ url | safeUrl }}
UrlInputs ==
  {[op |-> "tmpl", kind |-> "safeUrl", src |-> Tx_safeUrl,
    data |-> IF c.url = Undef THEN D_empty ELSE Data(K_url :> c.url),
    expected |-> c.out] : c \in UrlCases}

\* a block up to some point of its body, and the tag that closes it
BlockOpen(b) ==
  CASE b = "if" -> Tx_ifA
    [] b = "ifElse" -> Tx_ifElse
    [] b = "each" -> Tx_eachV
    [] b = "eachElse" -> Tx_eachElse
BlockClose(b) == IF b \in {"if", "ifElse"} THEN T_endIf ELSE T_endEach

\* what the text ends with inside the innermost block: plain text, or a
\* tag without its closing braces
PartOpen(p) ==
  CASE p = "text" -> Tx_partText
    [] p = "interp" -> Tx_partInterp
    [] p = "pipe" -> Tx_partPipe
    [] p = "call" -> Tx_partCall
    [] p = "raw" -> Tx_partRaw
    [] p = "ifTag" -> Tx_partIf
    [] p = "eachTag" -> Tx_partEach
\* the braces and close tag missing after it
PartClose(p) ==
  CASE p = "text" -> <<>>
    [] p = "ifTag" -> T_close \o T_endIf
    [] p = "eachTag" -> T_close \o T_endEach
    [] OTHER -> T_close

RECURSIVE Opened(_)
\* the blocks bs opened one inside the other
Opened(bs) == IF bs = <<>> THEN <<>> ELSE BlockOpen(Head(bs)) \o Opened(Tail(bs))
RECURSIVE Closers(_)
\* their close tags, innermost first
Closers(bs) == IF bs = <<>> THEN <<>> ELSE Closers(Tail(bs)) \o BlockClose(Head(bs))

\* a text that ends inside a tag or block, with the text it is the
\* beginning of once every missing close is supplied
UnclosedInputs ==
  {[op |-> "tmpl", kind |-> "unclosed", data |-> D_loop,
    src |-> Opened(bs) \o PartOpen(p),
    closed |-> Opened(bs) \o PartOpen(p) \o PartClose(p) \o Closers(bs),
    depth |-> Len(bs), part |-> p] :
     bs \in Seqs({"if", "ifElse", "each", "eachElse"}, 0, MaxDepth),
     p \in {"text", "interp", "pipe", "call", "raw", "ifTag", "eachTag"}}

\* texts with escaped delimiters: pieces are \{{, an interpolation of x,
\* the inside of a tag, a backslash and a letter, at top level or as the
\* body of an if block
EscapeInputs ==
  {[op |-> "tmpl", kind |-> "escape", data |-> D_loop,
    src |-> IF inIf THEN Tx_ifX \o Concat(ps) \o T_endIf ELSE Concat(ps),
    body |-> Concat(ps), inIf |-> inIf] :
     ps \in Seqs({T_escOpen, Tx_interpX, Tx_afterX, Tx_slash, Tx_textA}, 0, MaxPieces),
     inIf \in BOOLEAN}

\* s holds the text t
Contains(s, t) ==
  \E i \in 1..Len(s) : i + Len(t) - 1 <= Len(s) /\ SubSeq(s, i, i + Len(t) - 1) = t

\* texts without any {{
PlainInputs ==
  {[op |-> "tmpl", kind |-> "plain", data |-> d, src |-> Concat(ps)] :
     ps \in {qs \in Seqs({Tx_textA, T_close, Tx_brace, Tx_slash, Tx_hashIf, Tx_quote},
                         0, MaxPieces) : ~Contains(Concat(qs), T_open)},
     d \in {D_empty, D_loop}}

\* the decimal text of the integer n
IntText(n) == IF n < 0 THEN Tx_minus \o NatToStr(0 - n) ELSE NatToStr(n)

\* {{ key | truncate(n) }}, {{ key | truncate(n, "!") }} and
\* {{ key | truncate(n, "") }} for the keys x ("outer"), s ("hi") and n (5)
TruncateInputs ==
  {[op |-> "tmpl", kind |-> "truncate", data |-> D_rich,
    src |-> Tx_open \o kv[1] \o Tx_truncOpen \o IntText(n)
              \o (CASE sfx = "default" -> <<>>
                    [] sfx = "bang" -> Tx_argBang
                    [] sfx = "empty" -> Tx_argEmpty)
              \o Tx_callClose,
    text |-> kv[2], n |-> n,
    suffix |-> (CASE sfx = "default" -> S_dots
                  [] sfx = "bang" -> Tx_bang
                  [] sfx = "empty" -> <<>>)] :
     kv \in {<<K_x, K_outer>>, <<K_s, K_hi>>, <<K_n, Tx_five>>},
     n \in (0 - MaxCut)..MaxCut, sfx \in {"default", "bang", "empty"}}

\* {{ run }} for every text of one to MaxPieces of the characters - . 1 0
NumberInputs ==
  {[op |-> "tmpl", kind |-> "number", data |-> D_empty,
    src |-> Tx_open \o t \o Tx_close, text |-> t] :
     t \in Seqs({"-", ".", "1", "0"}, 1, MaxPieces)}

\* -- properly nested blocks, each with the tree its nesting stands for --
Piece(src, nodes) == [src |-> src, nodes |-> nodes]

\* the text of a body that holds no block: 1 for a first body, 2 for the
\* body of an else-if branch, e for a fallback
Leaf(slot) ==
  IF slot = "body" THEN Piece(<<"1">>, <<T(<<"1">>)>>)
  ELSE IF slot = "elif" THEN Piece(<<"2">>, <<T(<<"2">>)>>)
  ELSE Piece(Tx_else, <<T(Tx_else)>>)

\* a block between two texts
Around(b) == Piece(Tx_textA \o b.src \o K_p, <<T(Tx_textA)>> \o b.nodes \o <<T(K_p)>>)

\* the shapes of blocks: an if with or without one else-if branch (in
\* either spelling) and with or without a fallback, an each with or
\* without a fallback
Shapes ==
  {[k |-> "if", kw |-> kw, els |-> els] :
     kw \in {"none", "else if", "elseif"}, els \in BOOLEAN}
    \cup {[k |-> "each", kw |-> "none", els |-> els] : els \in BOOLEAN}

\* the bodies of a block of shape sh
Slots(sh) ==
  {"body"} \cup (IF sh.kw # "none" THEN {"elif"} ELSE {})
    \cup (IF sh.els THEN {"else"} ELSE {})

\* the block of shape sh whose body slot holds inner, its other bodies
\* being leaves
Block(sh, slot, inner) ==
  LET B(s) == IF s = slot THEN inner ELSE Leaf(s)
      elif == IF sh.kw = "none" THEN Piece(<<>>, <<>>)
              ELSE Piece((IF sh.kw = "elseif" THEN T_elseif \o Tx_space ELSE Tx_elseIfOpen)
                           \o K_nul \o T_close \o B("elif").src,
                         <<Branch(V(<<K_nul>>), B("elif").nodes)>>)
      els == IF sh.els THEN Piece(T_else \o B("else").src, B("else").nodes)
             ELSE Piece(<<>>, <<>>)
  IN IF sh.k = "if"
     THEN Piece(Tx_ifOpen \o K_x \o T_close \o B("body").src \o elif.src \o els.src
                  \o T_endIf,
                <<F(<<Branch(V(<<K_x>>), B("body").nodes)>> \o elif.nodes,
                    sh.els, els.nodes)>>)
     ELSE Piece(Tx_eachXs \o Tx_asKw \o K_v \o T_close \o B("body").src \o els.src
                  \o T_endEach,
                <<E(V(<<K_xs>>), K_v, FALSE, <<>>, B("body").nodes, sh.els, els.nodes)>>)

RECURSIVE Nest(_)
\* the blocks nested d deep
Nest(d) ==
  IF d <= 1 THEN {Block(sh, "none", Piece(<<>>, <<>>)) : sh \in Shapes}
  ELSE UNION {{Block(sh, slot, Around(b)) : slot \in Slots(sh), b \in Nest(d - 1)} :
                sh \in Shapes}

NestInputs ==
  {[op |-> "tmpl", kind |-> "nest", data |-> D_loop, src |-> b.src, nodes |-> b.nodes] :
     b \in UNION {Nest(d) : d \in 1..MaxDepth}}

RenderInputs ==
  IfInputs \cup EachInputs \cup InterpInputs \cup TruthInputs \cup NoAsInputs
    \cup OpenStringInputs \cup EqInputs \cup UrlInputs \cup UnclosedInputs
    \cup EscapeInputs \cup PlainInputs \cup TruncateInputs
    \cup NumberInputs \cup NestInputs

InitRender == InitCommon /\ input \in RenderInputs

\* render(input.src, input.data)
RenderInput ==
  /\ input.op = "tmpl"
  /\ last.op = "none"
  /\ RenderOnce(input.src, input.data)

NextRender ==
  \/ \E body \in CustomBodies : RegisterFunction(K_f, body)
  \/ RenderInput

SpecRender == InitRender /\ [][NextRender]_vars

\* -- the registry on its own: registrations under any name, and calls --
\* the names looked up: registered and unregistered ones, a built-in, and
\* names the registry object can only inherit
ProbeNames == {K_f, K_g, N_eq, P_proto, P_call, P_toString, P_valueOf}

\* {{ n() }}
ProbeText(n) == Tx_open \o n \o Tx_noArgs

NextReg ==
  \/ \E name \in HostNames, body \in CustomBodies : RegisterFunction(name, body)
  \/ \E n \in ProbeNames : Compile(ProbeText(n))
  \/ \E t \in trees : Render(t, D_empty)
  \/ \E n \in ProbeNames : RenderOnce(ProbeText(n), D_empty)

SpecReg == Init /\ [][NextReg]_vars

\* ------------------------------------------------------------------------
\* Properties
\* ------------------------------------------------------------------------
\* the latest evaluation is of a Call or Pipe
IsCall == last.op = "ev" /\ input.e.t \in {"C", "P"}

\* the results of evaluating each of args on its own
Each(args, ctx, reg) == [i \in DOMAIN args |-> ev(args[i], ctx, reg)]

RECURSIVE Logs(_, _)
\* the logs of the first k of the results rs, one after the other
Logs(rs, k) == IF k = 0 THEN <<>> ELSE Logs(rs, k - 1) \o rs[k].log

\* the least element of a non-empty set of numbers
Least(S) == CHOOSE i \in S : \A j \in S : i <= j

\* C1: compile and the render of its tree always complete and return a
\* string; no failure is thrown across the compile/render boundary.
C1_NeverThrows == last.op = "render" => ~last.res.thrown

\* C2: a Call or Pipe whose function name is not an entry of the registry
\* (inherited names counting as absent) evaluates to
\* "[Error: unknown <name>()]" and evaluates none of its arguments.
C2_UnknownFunction ==
  (IsCall /\ input.e.fn \notin DOMAIN fns)
    => last.res = Res(Str(S_ErrUnknownPre \o input.e.fn \o S_ErrUnknownPost),
                      <<EvEvent(input.e)>>)

\* the minimum argument counts of the catalogue of built-ins
MinArgs(name) ==
  IF name \in {N_eq, N_ne, N_gt, N_lt, N_gte, N_lte, N_truncate, N_limit, N_join,
               N_default} THEN 2
  ELSE IF name = N_replace THEN 3
  ELSE 1

\* C3: a call of a built-in with fewer argument expressions than its
\* minimum N evaluates to "[Error: <name>() needs <N> args]" and evaluates
\* none of the supplied arguments.
C3_TooFewArguments ==
  (/\ IsCall
   /\ input.e.fn \in BuiltinNames
   /\ fns[input.e.fn] = Builtin(input.e.fn)
   /\ Len(CallArgs(input.e)) < MinArgs(input.e.fn))
    => last.res = Res(Str(S_ErrPre \o input.e.fn \o S_ErrNeeds
                          \o NatToStr(MinArgs(input.e.fn)) \o S_ErrArgs),
                      <<EvEvent(input.e)>>)

\* key is genuinely present on the value v: a key of the mapping, an index
\* or the length of an array or string
Present(v, key) ==
  \/ v.k = "obj" /\ key \in DOMAIN v.m
  \/ v.k = "arr" /\ (key = N_length \/ \E i \in 0..(Len(v.a) - 1) : key = NatToStr(i))
  \/ v.k = "str" /\ (key = N_length \/ \E i \in 0..(Len(v.s) - 1) : key = NatToStr(i))

\* the value held by v under a key present on it
Held(v, key) ==
  IF v.k = "obj" THEN v.m[key]
  ELSE IF key = N_length THEN IntV(Len(IF v.k = "arr" THEN v.a ELSE v.s))
  ELSE LET i == CHOOSE j \in 0..(Len(IF v.k = "arr" THEN v.a ELSE v.s) - 1) :
                  key = NatToStr(j)
       IN IF v.k = "arr" THEN v.a[i + 1] ELSE Str(<<v.s[i + 1]>>)

RECURSIVE Reached(_, _)
\* the value reached from v along path, absent as soon as the current
\* value is null or absent or the segment is not present on it
Reached(path, v) ==
  IF path = <<>> THEN v
  ELSE IF v.k \in {"null", "undef"} \/ ~Present(v, Head(path)) THEN Undef
  ELSE Reached(Tail(path), Held(v, Head(path)))

\* C4: a Variable evaluates to the value reached along its path through
\* keys genuinely present, and to absent in every other case: never to an
\* inherited member, never to an error.
C4_OwnKeysOnly ==
  (last.op = "ev" /\ input.e.t = "V")
    => /\ last.res.v.k \notin {"proto", "throw"}
       /\ last.res = Res(Reached(input.e.path, input.ctx), <<EvEvent(input.e)>>)

\* an inherited name at the end of a path evaluates to absent
C4_Witness ==
  /\ last.op = "ev"
  /\ input.e = V(<<K_a, P_hasOwnProperty>>)
  /\ input.ctx = D_rich
  /\ last.res.v = Undef

\* C5: parsing terminates on every input: every iteration of the node loop
\* and of the argument loops, and every parseExpr that starts before the
\* end of the input, advances the cursor, which ends at the end of the input.
C5_ParserAdvances ==
  \A t \in trees :
    /\ t.tree.end.adv
    /\ t.tree.end.mono
    /\ t.tree.end.pos = Len(t.tree.src)

\* a stray character where an expression is expected has been compiled
C5_Witness ==
  /\ input.op = "text"
  /\ input.src = Tx_stray
  /\ \E t \in trees : t.tree.src = Tx_stray /\ t.tree.end.pos = Len(Tx_stray)

RECURSIVE Separately(_, _, _)
\* the texts of the nodes, each rendered on its own against ctx
Separately(nodes, ctx, reg) ==
  IF nodes = <<>> THEN <<>>
  ELSE rn(<<Head(nodes)>>, ctx, reg).out \o Separately(Tail(nodes), ctx, reg)

\* C6: rendering a Loop leaves the enclosing context and the caller's data
\* as they were: every sibling of the loop renders as it does on its own.
C6_LoopKeepsContext ==
  last.op = "render"
    => /\ last.res.ctx = last.data
       /\ ~last.res.thrown
            => last.res.out = Separately(compile(last.src).ast, last.data, fns)

\* after a loop binding x and i, x has its outer value and i is absent
C6_Witness ==
  /\ last.op = "render"
  /\ last.src = Tm_shadow
  /\ last.data = D_items
  /\ last.res.out = Out_shadow

\* C7: the output of a compiled template is a function of its text, the
\* data and the registry only, whatever was compiled or rendered before.
C7_OutputFunction ==
  last.op = "render"
    => last.res = rn(parseNodes(last.src, Cursor(0), <<>>).nodes, last.data, fns)

\* a kept template rendered while the caller holds another one
C7_Witness ==
  /\ last.op = "render"
  /\ ~last.once
  /\ \E t \in trees : t.tree.src # last.src
  /\ \E t \in trees : t.tree.src = last.src
  /\ last.res.out # <<>>

\* whether the result v ends the evaluation of the built-in name
Stops(name, v) == v = Throw \/ (IF name = N_and THEN ~truthy(v) ELSE truthy(v))

\* C8: and evaluates its arguments left to right, each at most once, up to
\* the first falsy result, which it returns, else it returns the last; or
\* does the same with the first truthy result.
C8_ShortCircuit ==
  (/\ IsCall
   /\ input.e.fn \in {N_and, N_or}
   /\ CallArgs(input.e) # <<>>)
    => LET rs == Each(CallArgs(input.e), input.ctx, fns)
           stops == {i \in DOMAIN rs : Stops(input.e.fn, rs[i].v)}
           k == IF stops = {} THEN Len(rs) ELSE Least(stops)
       IN last.res = Res(rs[k].v, <<EvEvent(input.e)>> \o Logs(rs, k))

\* and(null, f()) has returned null without calling the registered f
C8_Witness ==
  /\ last.op = "ev"
  /\ input.e = C(N_and, <<L(Null), C(K_f, <<>>)>>)
  /\ K_f \in DOMAIN fns
  /\ last.res = Res(Null, <<EvEvent(input.e), EvEvent(L(Null))>>)

\* C9: a registered function is invoked once all argument expressions have
\* been evaluated, each once and in order, and receives their values.
C9_ArgumentsFirst ==
  (/\ IsCall
   /\ input.e.fn \in DOMAIN fns
   /\ fns[input.e.fn].k = "custom")
    => LET body == fns[input.e.fn].body
           rs == Each(CallArgs(input.e), input.ctx, fns)
           vals == [i \in DOMAIN rs |-> rs[i].v]
           throws == {i \in DOMAIN rs : rs[i].v = Throw}
       IN IF throws = {}
          THEN last.res = Res(CustomApply(body, vals),
                              <<EvEvent(input.e)>> \o Logs(rs, Len(rs))
                                \o <<CallEvent(body, vals)>>)
          ELSE last.res = Res(Throw, <<EvEvent(input.e)>> \o Logs(rs, Least(throws)))

\* f(null, f()) with f = (a, b) => ...: the falsy first argument does not
\* keep the second from being evaluated
C9_Witness ==
  /\ last.op = "ev"
  /\ input.e = C(K_f, <<L(Null), C(K_f, <<>>)>>)
  /\ latest[K_f] = "eqText"
  /\ last.res.v = Str(S_NOT_EQUAL)

\* the registry after the registrations so far
Dispatch ==
  [n \in BuiltinNames \cup {m \in RegNames : latest[m] # "none"} |->
     IF n \in RegNames /\ latest[n] # "none" THEN Custom(latest[n]) ELSE Builtin(n)]

\* C10: a call of n is dispatched to the function most recently registered
\* under n, or to the built-in n if none was, also in templates compiled
\* before the registration.
C10_LatestRegistration ==
  /\ fns = Dispatch
  /\ last.op = "render"
       => last.res = rn(compile(last.src).ast, last.data, Dispatch)

\* a template compiled before eq was overridden renders with the override
C10_Witness ==
  /\ last.op = "render"
  /\ last.stale
  /\ ~last.once
  /\ last.src = Tm_eq
  /\ latest[K_f] = "none"
  /\ latest[N_eq] = "eqText"
  /\ last.res.out = Out_override

RECURSIVE AsCall(_)
\* e with every Pipe(L, f, A) in it written as Call(f, [L] followed by A)
AsCall(e) ==
  CASE e.t = "P" ->
         C(e.fn, <<AsCall(e.left)>> \o [i \in DOMAIN e.args |-> AsCall(e.args[i])])
    [] e.t = "C" -> C(e.fn, [i \in DOMAIN e.args |-> AsCall(e.args[i])])
    [] OTHER -> e

\* the log with every evaluated expression written without pipes
LogAsCall(log) ==
  [i \in DOMAIN log |->
     IF DOMAIN log[i] = DOMAIN EvEvent(L(Null)) THEN EvEvent(AsCall(log[i].ev))
     ELSE log[i]]

\* C15: evaluating Pipe(L, f, A) gives the result of evaluating
\* Call(f, [L] followed by A) and evaluates the same expressions in the
\* same order, so that L | f | g(x) equals g(f(L), x).
C15_PipeIsCall ==
  (last.op = "ev" /\ input.e.t = "P")
    => /\ AsCall(input.e) # input.e
       /\ last.res.v = ev(AsCall(input.e), input.ctx, fns).v
       /\ LogAsCall(last.res.log) = ev(AsCall(input.e), input.ctx, fns).log

\* x | f | truncate(1) with f = (a) => a has given the result of
\* truncate(f(x), 1): the first character of x and the ellipsis
C15_Witness ==
  /\ last.op = "ev"
  /\ input.e = P(P(V(<<K_x>>), K_f, <<>>), N_truncate, <<L(IntV(1))>>)
  /\ input.ctx = D_rich
  /\ latest[K_f] = "ident"
  /\ last.res.v = Str(<<"o">> \o S_dots)

\* ------------------------------------------------------------------------
\* Properties of rendering one template
\* ------------------------------------------------------------------------
\* the latest rendering is of an input of the given kind
Rendered(kind) == last.op = "render" /\ input.op = "tmpl" /\ input.kind = kind

\* the tree of the template under study
Tree == compile(input.src).ast

\* the conditions of the branches bs, in declaration order
Conds(bs) == [i \in DOMAIN bs |-> bs[i].cond]

\* C11: a Conditional evaluates its conditions in declaration order up to
\* the first truthy one, renders the body of that branch and of no other,
\* and renders the fallback exactly when no condition is truthy and a
\* fallback exists; otherwise it emits nothing.
C11_FirstTruthyBranch ==
  Rendered("if") =>
    LET n == Tree[1]
        rs == Each(Conds(n.branches), input.data, fns)
        stops == {i \in DOMAIN rs : rs[i].v = Throw \/ truthy(rs[i].v)}
        k == IF stops = {} THEN Len(rs) ELSE Least(stops)
    IN /\ Len(Tree) = 1
       /\ n.t = "F"
       /\ Len(n.branches) = Len(input.conds)
       /\ n.hasElse = input.els
       /\ last.res.log = Logs(rs, k)
       /\ last.res.out =
            (IF stops = {} THEN (IF input.els THEN Tx_else ELSE <<>>)
             ELSE IF rs[k].v = Throw THEN <<>>
             ELSE NatToStr(k))

\* {{#if nul}}1{{:else if x}}2{{:else if f()}}3{{:else}}e{{/if}} has
\* rendered the second body without evaluating f()
C11_Witness ==
  /\ Rendered("if")
  /\ input.conds = <<K_nul, K_x, Tx_callF>>
  /\ input.els
  /\ last.res.out = NatToStr(2)
  /\ last.res.log = <<EvEvent(V(<<K_nul>>)), EvEvent(V(<<K_x>>))>>

RECURSIVE Bodies(_, _)
\* the text [el:position] for each of the first k elements of arr, in
\* order, the position left out when no index name is declared
Bodies(arr, k) ==
  IF k = 0 THEN <<>>
  ELSE Bodies(arr, k - 1)
         \o Tx_lbr \o esc(ToStr(arr[k])) \o Tx_colon
         \o (IF input.hasIdx THEN NatToStr(k - 1) ELSE <<>>) \o Tx_rbr

\* the number of entries of log equal to ev
Count(log, event) == Cardinality({i \in DOMAIN log : log[i] = event})

\* C12: a Loop evaluates its source once; a source that is not a sequence
\* gives "[Error: #each needs array]" and neither body nor fallback; an
\* empty sequence gives the fallback if present, else nothing; otherwise
\* the body is rendered once per element, in order, with the element
\* bound to the element name and the position to the index name when
\* declared, and the fallback is not rendered.
C12_LoopRendering ==
  Rendered("each") =>
    LET n == Tree[1]
        r == ev(n.arr, input.data, fns)
    IN /\ Len(Tree) = 1
       /\ n.t = "E"
       /\ n.hasElse = input.els
       /\ Count(last.res.log, EvEvent(n.arr)) = 1
       /\ last.res.out =
            (IF r.v.k # "arr" THEN S_ErrEachArray
             ELSE IF r.v.a = <<>> THEN (IF input.els THEN Tx_else ELSE <<>>)
             ELSE Bodies(r.v.a, Len(r.v.a)))

\* the entity that stands for the character c, or c itself
Entity(c) ==
  CASE c = "&" -> S_amp
    [] c = "<" -> S_lt
    [] c = ">" -> S_gt
    [] c = "\"" -> S_quot
    [] c = "'" -> S_apos
    [] OTHER -> <<c>>

RECURSIVE EscapedOnce(_)
\* s with each character replaced by its entity in one pass
EscapedOnce(s) == IF s = <<>> THEN <<>> ELSE Entity(Head(s)) \o EscapedOnce(Tail(s))

\* the value the data under study holds under key, absent if it has none
Datum(key) == IF key \in DOMAIN input.data.m THEN input.data.m[key] ELSE Undef

\* C13: an Interpolation emits "[Error: use #each for arrays]" for a
\* sequence, "[Error: cannot render object]" for a mapping, nothing for
\* null or absent, else the string form of the value: unchanged when raw,
\* and otherwise with each of & < > " ' replaced by its entity exactly
\* once, so that the text has no literal < > " or '.
C13_Interpolation ==
  Rendered("interp") =>
    LET v == Datum(input.key)
    IN /\ Tree = <<I(V(<<input.key>>), input.raw)>>
       /\ last.res.out =
            (IF v.k = "arr" THEN S_ErrUseEach
             ELSE IF v.k = "obj" THEN S_ErrObject
             ELSE IF v.k \in {"null", "undef"} THEN <<>>
             ELSE IF input.raw THEN StringForms[input.key]
             ELSE EscapedOnce(StringForms[input.key]))
       /\ (~input.raw /\ v.k \notin {"arr", "obj"})
            => \A i \in DOMAIN last.res.out :
                 last.res.out[i] \notin {"<", ">", "\"", "'"}

\* the string <a b="c">&' has been rendered escaped: its five special
\* characters are entities and the rest is unchanged
C13_Witness ==
  /\ Rendered("interp")
  /\ input.key = K_s
  /\ ~input.raw
  /\ last.res.out = S_lt \o <<"a", " ", "b", "=">> \o S_quot \o <<"c">> \o S_quot
                      \o S_gt \o S_amp \o S_apos

\* the call f() was evaluated during the latest rendering
CalledF == Count(last.res.log, EvEvent(C(K_f, <<>>))) > 0

\* C14: truthy is false exactly for null, absent, false, 0, "", NaN, the
\* empty sequence and the mapping without keys, and true for every other
\* value, whatever a sequence or mapping contains; this predicate selects
\* the branch of a Conditional and decides and, or, not and default.
C14_Truthiness ==
  Rendered("truthy") =>
    LET t == input.key \notin FalsyKeys
    IN /\ truthy(Datum(input.key)) <=> t
       /\ input.form = "if" => last.res.out = (IF t THEN NatToStr(1) ELSE Tx_else)
       /\ input.form = "not" => last.res.out = (IF t THEN S_false ELSE S_true)
       /\ input.form = "and" => (CalledF <=> t)
       /\ input.form \in {"or", "default"} => (CalledF <=> ~t)

\* the mapping {a: false} has selected the first branch of a conditional
C14_Witness ==
  /\ Rendered("truthy")
  /\ input.key = K_own
  /\ input.form = "if"
  /\ Datum(K_own).m[K_a] = Bool(FALSE)
  /\ last.res.out = NatToStr(1)

\* the text the template src renders to against the data under study
TextOf(src) == rn(compile(src).ast, input.data, fns).out

\* C16: an each tag without the keyword as gives the inline error text,
\* and parsing resumes after the tag's closing braces: no character of the
\* malformed tag is emitted as text or parsed as a further node.
C16_MissingAsConsumesTag ==
  Rendered("noAs") =>
    /\ Head(Tree) = T(S_ErrMissingAs)
    /\ Tail(Tree) = compile(input.rest).ast
    /\ last.res.out = S_ErrMissingAs \o TextOf(input.rest)

\* the literals of the expression e
RECURSIVE Literals(_)
Literals(e) ==
  CASE e.t = "L" -> {e}
    [] e.t = "V" -> {}
    [] e.t = "C" -> UNION {Literals(e.args[i]) : i \in DOMAIN e.args}
    [] e.t = "P" ->
         Literals(e.left) \cup UNION {Literals(e.args[i]) : i \in DOMAIN e.args}

\* C17: a string literal without its closing quote has the empty string
\* as its value, and scanning it does not consume the rest of the input:
\* what follows the tag's closing braces is still parsed and rendered.
C17_UnclosedString ==
  Rendered("openString") =>
    /\ Head(Tree).t = "I"
    /\ Literals(Head(Tree).expr) = {L(Str(<<>>))}
    /\ Tail(Tree) = compile(input.rest).ast
    /\ last.res.out = TextOf(input.tag) \o TextOf(input.rest)

RECURSIVE Contents(_)
\* the kind and contents of the value v, whichever object holds them
Contents(v) ==
  CASE v.k = "arr" -> [k |-> "arr", a |-> [i \in DOMAIN v.a |-> Contents(v.a[i])]]
    [] v.k = "obj" -> [k |-> "obj", m |-> [key \in DOMAIN v.m |-> Contents(v.m[key])]]
    [] OTHER -> v

\* C18: eq is true exactly when its operands are structurally equal (same
\* kind and contents, recursively for sequences and mappings), also for
\* two distinct sequences or mappings, and ne is its negation.
C18_StructuralEquality ==
  Rendered("eq") =>
    LET same == Contents(Datum(input.k1)) = Contents(Datum(input.k2))
    IN last.res.out = (IF same = (input.fn = N_eq) THEN S_true ELSE S_false)

\* C19: safeUrl is in the registry from the start and gives the trimmed
\* string for a relative, hash, query, http, https, mailto, tel or ftp URL,
\* and the empty string for null or absent and for a value that, after
\* leading whitespace, starts with javascript:, data: or vbscript: in any
\* letter case.
C19_SafeUrl ==
  Rendered("safeUrl") =>
    /\ K_safeUrl \in DOMAIN fns
    /\ last.res.out = input.expected

\* the text s holds "[Error: "
HasError(s) ==
  \E i \in 1..Len(s) :
    i + Len(S_ErrPre) - 1 <= Len(s) /\ SubSeq(s, i, i + Len(S_ErrPre) - 1) = S_ErrPre

StartsWith(s, t) == Len(t) <= Len(s) /\ SubSeq(s, 1, Len(t)) = t

\* s without its first n characters
Drop(s, n) == SubSeq(s, n + 1, Len(s))

RECURSIVE Unescaped(_)
\* the text s read from the left: \{{ stands for {{, the interpolation of
\* x for the value of x, and every other character for itself, up to an
\* unescaped close tag of the if block
Unescaped(s) ==
  IF s = <<>> \/ StartsWith(s, T_endIf) THEN <<>>
  ELSE IF StartsWith(s, T_escOpen) THEN T_open \o Unescaped(Drop(s, Len(T_escOpen)))
  ELSE IF StartsWith(s, Tx_interpX) THEN K_outer \o Unescaped(Drop(s, Len(Tx_interpX)))
  ELSE <<Head(s)>> \o Unescaped(Tail(s))

\* C21: every \{{ met where a node may start, at top level or in a block
\* body, gives the text {{ without the backslash and opens no tag, and
\* what follows it up to the next unescaped {{ is emitted as it stands.
C21_EscapedDelimiter ==
  Rendered("escape") =>
    last.res.out = Unescaped(IF input.inIf THEN input.body \o T_endIf ELSE input.body)

\* the body A\{{ x }} of an if block has rendered as A{{ x }}
C21_Witness ==
  /\ Rendered("escape")
  /\ input.inIf
  /\ input.body = Tx_textA \o T_escOpen \o Tx_afterX
  /\ last.res.out = Tx_textA \o T_open \o Tx_afterX

\* C22: a template without any {{ renders to itself, character for
\* character, whatever the data and the registry.
C22_PlainTextRoundTrip ==
  Rendered("plain") => last.res.out = input.src

\* the text \"}} has rendered to itself against data that binds x
C22_Witness ==
  /\ Rendered("plain")
  /\ input.src = Tx_slash \o Tx_quote \o T_close
  /\ input.data = D_loop
  /\ latest[K_f] # "none"
  /\ last.res.out = Tx_slash \o Tx_quote \o T_close

\* C23: truncate(s, n, suffix) gives s unchanged when s has at most n
\* characters, and otherwise the first max(n, 0) characters of s followed
\* by the suffix ("..." by default, the empty suffix allowed): for a
\* negative n the suffix alone.
C23_Truncate ==
  Rendered("truncate") =>
    last.res.out =
      (IF Len(input.text) <= input.n THEN input.text
       ELSE SubSeq(input.text, 1, IF input.n < 0 THEN 0 ELSE input.n) \o input.suffix)

RECURSIVE DigitRun(_, _)
\* the longest beginning of s made of digits and at most one dot, dot
\* telling whether a dot was met already
DigitRun(s, dot) ==
  IF s = <<>> THEN <<>>
  ELSE IF Head(s) \in {"0", "1"} THEN <<Head(s)>> \o DigitRun(Tail(s), dot)
  ELSE IF Head(s) = "." /\ ~dot THEN <<".">> \o DigitRun(Tail(s), TRUE)
  ELSE <<>>

\* the run scanned at the start of s: an optional -, then digits with at
\* most one dot
ScannedRun(s) ==
  IF Head(s) = "-" THEN <<"-">> \o DigitRun(Tail(s), FALSE) ELSE DigitRun(s, FALSE)

RECURSIVE Binary01(_)
\* the number written by the decimal digits ds, each 0 or 1
Binary01(ds) ==
  IF ds = <<>> THEN 0
  ELSE 10 * Binary01(SubSeq(ds, 1, Len(ds) - 1)) + (IF ds[Len(ds)] = "1" THEN 1 ELSE 0)

\* the numeric value of a run that holds a digit
RunValue(run) ==
  LET neg == Head(run) = "-"
      body == IF neg THEN Tail(run) ELSE run
      dots == {i \in DOMAIN body : body[i] = "."}
      cut == IF dots = {} THEN Len(body) + 1 ELSE CHOOSE i \in dots : TRUE
      int == SubSeq(body, 1, cut - 1)
      frac == SubSeq(body, cut + 1, Len(body))
      m == Binary01(int \o frac)
  IN Num(IF neg THEN 0 - m ELSE m, Len(frac))

C25_InnermostBlock == Rendered("nest") => Tree = input.nodes

\* an each with a fallback inside the first body of an if that has an
\* else-if branch and a fallback of its own: the loop runs twice between
\* the texts around it
C25_Witness ==
  /\ Rendered("nest")
  /\ input.src = Block([k |-> "if", kw |-> "elseif", els |-> TRUE], "body",
                       Around(Block([k |-> "each", kw |-> "none", els |-> TRUE],
                                    "none", Piece(<<>>, <<>>)))).src
  /\ Len(Tree) = 1
  /\ Tree[1].hasElse
  /\ Len(Tree[1].branches) = 2
  /\ Tree[1].branches[1].body[2].hasElse
  /\ last.res.out = <<"A", "1", "1", "p">>

\* C26: during every parse the cursor stays within 0..length of the input
\* and no assignment to it decreases it.
C26_CursorInBounds ==
  \A t \in trees :
    /\ t.tree.end.mono
    /\ 0 <= t.tree.end.pos
    /\ t.tree.end.pos <= Len(t.tree.src)

\* an unclosed tag holding an unclosed string that ends in a backslash has
\* been parsed: the closing quote and the closing braces are looked for at
\* the end of the input
C26_Witness ==
  /\ input.op = "text"
  /\ input.src = T_open \o <<"\"", "\\">>
  /\ \E t \in trees :
       /\ t.tree.src = input.src
       /\ t.tree.ast = <<I(L(Str(<<>>)), FALSE)>>
       /\ t.tree.end = Cursor(Len(input.src))

\* C27: registerFunction(name, fn) changes the entry the registry yields for
\* name and for no other name, compile and render change no entry, and a
\* name that yields a function never yields none afterwards, so that its
\* calls never render the unknown-function error again.
C27_RegistryFrame ==
  [][/\ \A n \in ProbeNames :
          /\ RegGet(fns', n) # RegGet(fns, n)
               => (n \in HostNames /\ latest'[n] # latest[n])
          /\ RegGet(fns, n) # Undef => RegGet(fns', n) # Undef
          /\ (last' # last /\ last'.op = "render" /\ last'.src = ProbeText(n)
                /\ RegGet(fns, n) # Undef)
               => last'.res.out # UnknownError(n).s
     /\ Cardinality({n \in HostNames : latest'[n] # latest[n]}) <= 1
     /\ ({t.tree : t \in trees'} # {t.tree : t \in trees}
           \/ (last' # last /\ last'.op = "render")) => fns' = fns]_vars

====
